---- MODULE Spec2Model ----
(***************************************************************************)
(* A model of the retrieval-augmented-generation core of                   *)
(* base24-brain-assistant: the chunkers, the browser vector store, the     *)
(* local query path and the process-document edge function.                *)
(*                                                                         *)
(* Texts are sequences of character codes; code 0 stands for a white-space *)
(* character (what String.prototype.trim removes), every other code for a  *)
(* non-blank character.                                                    *)
(***************************************************************************)
EXTENDS Integers, Sequences, FiniteSets, TLC

VARIABLES
    ck,           \* one call of splitIntoChunks: its arguments, locals and result
    chunks,       \* BrowserVectorStore.chunks
    localStorage, \* the item stored under 'base24-vector-store', if any
    quota,        \* how many chunk records the browser lets the snapshot hold
    given,        \* history: per document id, the chunks of its latest
                  \* addDocumentChunks call not followed by a removal, and
                  \* how many chunks of the id that call found in the store
    search,       \* the latest searchSimilar call: its arguments and outcome
    chat,         \* HybridChatInterface: its state and the locals of handleSubmit
    ing,          \* one ingestion path: its tables or trackers and the locals of
                  \* the invocation in progress
    handler,      \* one invocation of the chat-with-docs function
    ollama,       \* one streamed call of OllamaClient.chat
    pipe,         \* embeddingGenerator: embeddingPipeline and the calls in progress
    checks,       \* the calls of checkOllamaConnection in progress
    cos           \* one call of cosineSimilarity: its arguments and result

vars == <<ck, chunks, localStorage, quota, given, search, chat, ing,
          handler, ollama, pipe, checks, cos>>

\* the parts of the program a specification does not run
rest == <<handler, ollama, pipe, checks, cos>>

RestIdle ==
    /\ handler = <<>> /\ ollama = <<>> /\ pipe = <<>> /\ checks = <<>> /\ cos = <<>>

----------------------------------------------------------------------------
(* Bounds of the model and constants of the program *)

MaxLen == 4            \* longest short text given to the chunker
MaxSize == 3           \* largest chunkSize / overlap tried on short texts

MinChunkLen == 50      \* HybridDocumentUpload.tsx:60  chunk.length > 50
DefaultChunkSize == 1000
DefaultOverlap == 200

MaxChunks == 2         \* most chunks given to one addDocumentChunks call
MaxStored == 3         \* most chunks in the store when it is searched
MaxTopK == 2           \* largest topK given to searchSimilar
MaxChatStored == 2     \* most chunks in the store of the chat interface
MaxFragments == 2      \* most fragments streamed for one answer
MaxQuestions == 1      \* most questions submitted to the chat interface

MaxIter == MaxLen + 2  \* iterations after which a non-advancing loop is cut off

\* localStorage.getItem(storageKey) of a key never set: null
NoItem == [present |-> FALSE, json |-> <<>>]

\* JSON.stringify(this.chunks): the item that holds the array as text
Stringify(cs) == [present |-> TRUE, json |-> cs]

\* JSON.parse(stored)
Parse(item) == item.json

Min2(a, b) == IF a < b THEN a ELSE b
Max2(a, b) == IF a > b THEN a ELSE b
SetMin(S) == CHOOSE x \in S : \A y \in S : x <= y
SetMax(S) == CHOOSE x \in S : \A y \in S : x >= y

----------------------------------------------------------------------------
(* Strings *)

\* text.slice(start, end): negative indices count from the end of the text
Slice(text, s, e) ==
    LET n == Len(text)
        from == IF s < 0 THEN Max2(n + s, 0) ELSE Min2(s, n)
        to == IF e < 0 THEN Max2(n + e, 0) ELSE Min2(e, n)
    IN IF from >= to THEN <<>> ELSE SubSeq(text, from + 1, to)

\* chunk.trim(): leading and trailing white space removed
Trim(text) ==
    LET solid == {i \in 1..Len(text) : text[i] # 0}
    IN IF solid = {} THEN <<>> ELSE SubSeq(text, SetMin(solid), SetMax(solid))

\* chunks.filter(chunk => chunk.length > 50)
RECURSIVE FilterShort(_)
FilterShort(cs) ==
    IF cs = <<>> THEN <<>>
    ELSE IF Len(Head(cs)) > MinChunkLen
         THEN <<Head(cs)>> \o FilterShort(Tail(cs))
         ELSE FilterShort(Tail(cs))

----------------------------------------------------------------------------
(* splitIntoChunks, one loop iteration at a time *)

\* (mutation) the end of the window not clamped to the text
WindowEndUnclamped(start, chunkSize, len) == start + chunkSize

\* const end = Math.min(start + chunkSize, text.length)
WindowEnd(start, chunkSize, len) == Min2(start + chunkSize, len)

\* (mutation) the next window starts one character too late
NextStartSkip(end, overlap) == end - overlap + 1

\* start = end - overlap
NextStart(end, overlap) == end - overlap

\* (mutation) every chunker pushes the trimmed slice
PushedTrimmed(impl, text, start, end) == Trim(Slice(text, start, end))

\* what is pushed: the slice (server) or the trimmed slice (local)
Pushed(impl, text, start, end) ==
    IF impl = "local" THEN Trim(Slice(text, start, end)) ELSE Slice(text, start, end)

\* (mutation) every chunker returns all it pushed
ReturnedUnfiltered(impl, cs) == cs

\* what is returned: the chunks (server) or those longer than 50 (local)
Returned(impl, cs) ==
    IF impl = "local" THEN FilterShort(cs) ELSE cs

\* a text of n characters, blank exactly at the positions of ws
Text(n, ws) == [i \in 1..n |-> IF i \in ws THEN 0 ELSE i]

ShortTexts == {Text(n, ws) : n \in 0..MaxLen, ws \in SUBSET (1..MaxLen)}
LongLens == {MinChunkLen + 1, MinChunkLen + 2, 2 * MinChunkLen + 10}
LongTexts ==
    {Text(n, ws) : n \in LongLens,
                   ws \in {{}, {1}, {MinChunkLen + 2}, {1, 2 * MinChunkLen + 10}}}

\* "abcdefghij" cut with chunkSize 4 and overlap 2
ExampleInput == <<Text(10, {}), 4, 2>>

ChunkerInputs ==
    (ShortTexts \X (0..MaxSize) \X (0..MaxSize))
    \cup (LongTexts \X {MinChunkLen + 5, DefaultChunkSize} \X {5, DefaultOverlap})
    \cup {ExampleInput}

\* no call of the server splitIntoChunks on these arguments has returned
NotRun == [ran |-> FALSE, result |-> <<>>]

ChunkerIdle ==
    [impl |-> "none", text |-> <<>>, chunkSize |-> 0, overlap |-> 0,
     start |-> 0, end |-> 0, chunks |-> <<>>, pc |-> "idle", result |-> <<>>,
     server |-> NotRun]

InitChunker ==
    /\ chunks = <<>> /\ localStorage = NoItem /\ quota = 0
    /\ given = <<>> /\ search = <<>> /\ chat = <<>> /\ ing = <<>> /\ RestIdle
    /\ \E impl \in {"server", "local"}, in \in ChunkerInputs :
        ck = [impl |-> impl, text |-> in[1], chunkSize |-> in[2], overlap |-> in[3],
              start |-> 0, end |-> 0, chunks |-> <<>>, pc |-> "loop", result |-> <<>>,
              server |-> NotRun]

\* (mutation) a pass that leaves start where it was
ChunkIterateStays ==
    /\ ck.pc = "loop"
    /\ ck.start < Len(ck.text)
    /\ Len(ck.chunks) < MaxIter
    /\ LET end == WindowEnd(ck.start, ck.chunkSize, Len(ck.text))
           pushed == Append(ck.chunks, Pushed(ck.impl, ck.text, ck.start, end))
       IN IF end = Len(ck.text)
          THEN ck' = [ck EXCEPT !.end = end, !.chunks = pushed, !.pc = "exit"]
          ELSE ck' = [ck EXCEPT !.end = end, !.chunks = pushed]
    /\ UNCHANGED <<chunks, localStorage, quota, given, search, chat, ing, rest>>

\* one pass through the body of  while (start < text.length)
ChunkIterate ==
    /\ ck.pc = "loop"
    /\ ck.start < Len(ck.text)
    /\ Len(ck.chunks) < MaxIter
    /\ LET end == WindowEnd(ck.start, ck.chunkSize, Len(ck.text))
           pushed == Append(ck.chunks, Pushed(ck.impl, ck.text, ck.start, end))
       IN IF end = Len(ck.text)
          THEN ck' = [ck EXCEPT !.end = end, !.chunks = pushed, !.pc = "exit"]
          ELSE ck' = [ck EXCEPT !.end = end, !.chunks = pushed,
                                !.start = NextStart(end, ck.overlap)]
    /\ UNCHANGED <<chunks, localStorage, quota, given, search, chat, ing, rest>>

\* the loop is left (condition false, or break) and the function returns
ChunkReturn ==
    /\ \/ ck.pc = "exit"
       \/ ck.pc = "loop" /\ ~(ck.start < Len(ck.text))
    /\ ck' = [ck EXCEPT !.pc = "done", !.result = Returned(ck.impl, ck.chunks)]
    /\ UNCHANGED <<chunks, localStorage, quota, given, search, chat, ing, rest>>

\* the arguments the server splitIntoChunks returned on are given to the local
\* splitIntoChunks; what the server returned is kept
ChunkLocally ==
    /\ ck.pc = "done" /\ ck.impl = "server"
    /\ ck' = [ck EXCEPT !.impl = "local", !.start = 0, !.end = 0, !.chunks = <<>>,
                        !.pc = "loop", !.result = <<>>,
                        !.server = [ran |-> TRUE, result |-> ck.result]]
    /\ UNCHANGED <<chunks, localStorage, quota, given, search, chat, ing, rest>>

NextChunker == ChunkIterate \/ ChunkReturn \/ ChunkLocally

SpecChunker == InitChunker /\ [][NextChunker]_vars

\* the call runs on: a step that can be taken is taken
FairSpecChunker == SpecChunker /\ WF_vars(NextChunker)

----------------------------------------------------------------------------
(* Properties of the chunkers *)

DropFirst(s, k) == IF k >= Len(s) THEN <<>> ELSE SubSeq(s, k + 1, Len(s))

RECURSIVE Concat(_)
Concat(ss) == IF ss = <<>> THEN <<>> ELSE Head(ss) \o Concat(Tail(ss))

\* the chunks joined after the first `overlap` characters of every chunk but the
\* first are dropped
Reassembled(cs, overlap) ==
    Concat([i \in 1..Len(cs) |->
                IF i = 1 THEN cs[i] ELSE DropFirst(cs[i], overlap)])

\* the cs cover the text and the last one is the end of the text
Covers(cs, text, overlap) ==
    /\ Reassembled(cs, overlap) = text
    /\ text # <<>> => cs # <<>>
    /\ cs # <<>> =>
           cs[Len(cs)] =
               Slice(text, Len(text) - Len(cs[Len(cs)]), Len(text))

ValidWindow == ck.chunkSize > ck.overlap /\ ck.overlap >= 0

\* C7 (as claimed): a call with overlap >= chunkSize is rejected: it neither
\* pushes a chunk nor returns
C7_NonAdvancingRejected ==
    (ck.pc # "idle" /\ ck.overlap >= ck.chunkSize)
        => (ck.chunks = <<>> /\ ck.pc # "done")

C19_WindowArithmetic ==
    (ck.pc = "done" /\ ck.impl = "server" /\ ValidWindow) =>
        LET step == ck.chunkSize - ck.overlap
            len == Len(ck.text)
            n == Len(ck.result)
        IN /\ \A k \in 0..(n - 1) :
                  ck.result[k + 1] =
                      Slice(ck.text, k * step, Min2(k * step + ck.chunkSize, len))
           /\ \A k \in 0..(n - 2) :
                  /\ k * step + ck.chunkSize < len
                  /\ Slice(ck.result[k + 2], 0, ck.overlap) =
                         Slice(ck.result[k + 1],
                               Len(ck.result[k + 1]) - ck.overlap,
                               Len(ck.result[k + 1]))
           /\ len = 0 => n = 0
           /\ len > 0 => (n > 0 /\ (n - 1) * step + ck.chunkSize >= len)
           /\ <<ck.text, ck.chunkSize, ck.overlap>> = ExampleInput =>
                  ck.result = << <<1, 2, 3, 4>>, <<3, 4, 5, 6>>,
                                 <<5, 6, 7, 8>>, <<7, 8, 9, 10>> >>

\* the least n with n * d >= a
CeilDiv(a, d) == (a + d - 1) \div d

\* C25: with size > overlap >= 0 every splitIntoChunks returns, every pass of
\* its loop that is followed by another moves start forward, and it returns at
\* most ceil(len / (size - overlap)) chunks
C25_ChunkerTerminates ==
    /\ [][(ValidWindow /\ ck.pc = "loop" /\ ck'.pc = "loop")
             => ck'.start > ck.start]_vars
    /\ [](ValidWindow =>
             /\ Len(ck.chunks) <= CeilDiv(Len(ck.text), ck.chunkSize - ck.overlap)
             /\ Len(ck.result) <= CeilDiv(Len(ck.text), ck.chunkSize - ck.overlap))
    /\ (ValidWindow /\ ck.pc = "loop") ~> (ck.pc = "done")

C25_Witness ==
    /\ ck.pc = "done" /\ ValidWindow
    /\ Len(ck.result) >= 3
    /\ Len(ck.result) = CeilDiv(Len(ck.text), ck.chunkSize - ck.overlap)

C19_Witness ==
    /\ ck.pc = "done" /\ ck.impl = "server"
    /\ <<ck.text, ck.chunkSize, ck.overlap>> = ExampleInput
    /\ Len(ck.result) = 4

\* the chunks cs, each trimmed
Trimmed(cs) == [i \in 1..Len(cs) |-> Trim(cs[i])]

\* both chunkers have returned on the same arguments, size > overlap >= 0
BothReturned ==
    /\ ck.pc = "done" /\ ck.impl = "local" /\ ck.server.ran
    /\ ValidWindow

----------------------------------------------------------------------------
(* BrowserVectorStore *)

DocIds == {"d1", "d2"}
DocName(d) == IF d = "d1" THEN "a.txt" ELSE "b.txt"

\* embeddings: every norm is a perfect square, so that Math.sqrt and the
\* division of cosineSimilarity are exact on them
Zero == <<0, 0, 0, 0>>
E1 == <<1, 0, 0, 0>>
E2 == <<0, 1, 0, 0>>
V3 == <<3, 9, 3, 1>>
Short == <<1, 0>>

\* the finite sequences over S of length at most n
SeqsUpTo(S, n) == UNION {[1..k -> S] : k \in 0..n}

IndexesOf(seq) == 1..Len(seq)

\* chunks.map((content, index) => ({id, documentId, content, embedding, metadata}))
NewChunks(documentId, documentName, texts, embeddings) ==
    [i \in IndexesOf(texts) |->
        [id |-> <<documentId, i - 1>>,
         documentId |-> documentId,
         content |-> texts[i],
         embedding |-> embeddings[i],
         metadata |-> [chunkIndex |-> i - 1, documentName |-> documentName]]]

\* (mutation) the chunks already held for the document are kept
KeepExisting(cs, documentId) == cs

\* this.chunks.filter(chunk => chunk.documentId !== documentId)
RemoveExisting(cs, documentId) ==
    SelectSeq(cs, LAMBDA c : c.documentId # documentId)

\* (mutation) the array is replaced by the new chunks
AddChunksOnly(cs, documentId, documentName, texts, embeddings) ==
    NewChunks(documentId, documentName, texts, embeddings)

\* the chunk array addDocumentChunks leaves
AddChunks(cs, documentId, documentName, texts, embeddings) ==
    RemoveExisting(cs, documentId)
        \o NewChunks(documentId, documentName, texts, embeddings)

\* saveToStorage: setItem(storageKey, JSON.stringify(this.chunks)); a
\* QuotaExceededError is caught and logged, the old value stays
Saved(cs, old, q) == IF Len(cs) <= q THEN Stringify(cs) ELSE old

NoQuota == 1000

NoneGiven == [chunks |-> <<>>, replaced |-> 0]

InitStoreVars ==
    /\ chunks = <<>>
    /\ localStorage = NoItem
    /\ given = [d \in DocIds |-> NoneGiven]

addDocumentChunks(documentId, documentName, texts, embeddings) ==
    /\ chunks' = AddChunks(chunks, documentId, documentName, texts, embeddings)
    /\ localStorage' = Saved(chunks', localStorage, quota)
    /\ given' = [given EXCEPT ![documentId] =
                    [chunks |-> NewChunks(documentId, documentName, texts, embeddings),
                     replaced |-> Len(chunks) - Len(RemoveExisting(chunks, documentId))]]
    /\ UNCHANGED <<ck, quota, search, chat, rest>>

removeDocument(documentId) ==
    /\ chunks' = SelectSeq(chunks, LAMBDA c : c.documentId # documentId)
    /\ localStorage' = Saved(chunks', localStorage, quota)
    /\ given' = [given EXCEPT ![documentId] = NoneGiven]
    /\ UNCHANGED <<ck, quota, search, chat, rest>>

clear ==
    /\ chunks' = <<>>
    /\ localStorage' = Saved(chunks', localStorage, quota)
    /\ given' = [d \in DocIds |-> NoneGiven]
    /\ UNCHANGED <<ck, quota, search, chat, rest>>

getChunkCount == Len(chunks)

getDocumentCount == Cardinality({chunks[i].documentId : i \in IndexesOf(chunks)})

\* the (text, embedding) pairs given to addDocumentChunks
GivenPairs == {<<"x", E1>>, <<"y", E1>>, <<"x", E2>>}

AddCall ==
    \E d \in DocIds, n \in 0..MaxChunks :
        \E pairs \in [1..n -> GivenPairs] :
            /\ addDocumentChunks(d, DocName(d), [i \in 1..n |-> pairs[i][1]],
                                 [i \in 1..n |-> pairs[i][2]])
            /\ UNCHANGED ing

RemoveCall == \E d \in DocIds : removeDocument(d) /\ UNCHANGED ing

ClearCall == clear /\ UNCHANGED ing

InitStore ==
    /\ ck = ChunkerIdle
    /\ InitStoreVars
    /\ quota = NoQuota
    /\ search = <<>>
    /\ chat = <<>> /\ ing = <<>> /\ RestIdle

NextStore == AddCall \/ RemoveCall \/ ClearCall

SpecStore == InitStore /\ [][NextStore]_vars

\* the chunks the store holds for a document, in store order
ChunksOf(cs, d) == SelectSeq(cs, LAMBDA c : c.documentId = d)

RECURSIVE SumLen(_, _)
SumLen(f, S) ==
    IF S = {} THEN 0
    ELSE LET d == CHOOSE x \in S : TRUE IN Len(f[d].chunks) + SumLen(f, S \ {d})

\* C3: the chunks held for a document id are exactly those of its latest
\* addDocumentChunks call (none once it was removed or the store cleared), never
\* mixed with an earlier generation, and getChunkCount counts just those
C3_OneGeneration ==
    /\ \A d \in DOMAIN given : ChunksOf(chunks, d) = given[d].chunks
    /\ getChunkCount = SumLen(given, DOMAIN given)

\* a second addDocumentChunks for the same id on an otherwise empty store, with
\* a different number of chunks than the first
C3_Witness ==
    /\ given # <<>>
    /\ given["d2"].chunks = <<>>
    /\ given["d1"].replaced = 2
    /\ Len(given["d1"].chunks) = 1
    /\ getChunkCount = 1

----------------------------------------------------------------------------
(* cosineSimilarity and searchSimilar *)

RECURSIVE DotFrom(_, _, _)
DotFrom(a, b, i) ==
    IF i > Len(a) THEN 0 ELSE a[i] * b[i] + DotFrom(a, b, i + 1)

\* (mutation) normB accumulates a[i] * a[i]
cosineSimilarityNormOfA(a, b) ==
    [dotProduct |-> DotFrom(a, b, 1),
     normA |-> DotFrom(a, a, 1),
     normB |-> DotFrom(a, a, 1)]

\* the three sums of the loop of cosineSimilarity; the number returned is
\*   dotProduct / (Math.sqrt(normA) * Math.sqrt(normB)),
\* kept here as the sums it is computed from.  It is NaN (0 / 0) exactly when
\* normA or normB is 0.
cosineSimilarity(a, b) ==
    [dotProduct |-> DotFrom(a, b, 1),
     normA |-> DotFrom(a, a, 1),
     normB |-> DotFrom(b, b, 1)]

\* if (a.length !== b.length) throw new Error('Vectors must have the same length')
LengthsDiffer(a, b) == Len(a) # Len(b)

IsNaN(x) == x.normA * x.normB = 0

\* d * |d|: the square of d with the sign of d
SignedSquare(d) == IF d < 0 THEN 0 - d * d ELSE d * d

\* x < y as numbers (false when either is NaN)
Less(x, y) ==
    /\ ~IsNaN(x) /\ ~IsNaN(y)
    /\ SignedSquare(x.dotProduct) * (y.normA * y.normB)
           < SignedSquare(y.dotProduct) * (x.normA * x.normB)

\* x = y as numbers (false when either is NaN)
Same(x, y) ==
    /\ ~IsNaN(x) /\ ~IsNaN(y)
    /\ SignedSquare(x.dotProduct) * (y.normA * y.normB)
           = SignedSquare(y.dotProduct) * (x.normA * x.normB)

\* the relevance threshold 0.3 = ThresholdNum / ThresholdDen
ThresholdNum == 3
ThresholdDen == 10

\* (mutation) x >= 0.3
AtLeastThreshold(x) ==
    /\ ~IsNaN(x)
    /\ x.dotProduct > 0
    /\ ThresholdDen * ThresholdDen * x.dotProduct * x.dotProduct
           >= ThresholdNum * ThresholdNum * x.normA * x.normB

\* x > 0.3
AboveThreshold(x) ==
    /\ ~IsNaN(x)
    /\ x.dotProduct > 0
    /\ ThresholdDen * ThresholdDen * x.dotProduct * x.dotProduct
           > ThresholdNum * ThresholdNum * x.normA * x.normB

\* x < 0.3
BelowThreshold(x) ==
    /\ ~IsNaN(x)
    /\ \/ x.dotProduct <= 0
       \/ ThresholdDen * ThresholdDen * x.dotProduct * x.dotProduct
              < ThresholdNum * ThresholdNum * x.normA * x.normB

\* this.chunks.map(chunk => ({content, similarity, documentName, chunkIndex}))
Similarities(cs, queryEmbedding) ==
    [i \in IndexesOf(cs) |->
        [content |-> cs[i].content,
         similarity |-> cosineSimilarity(queryEmbedding, cs[i].embedding),
         documentName |-> cs[i].metadata.documentName,
         chunkIndex |-> cs[i].metadata.chunkIndex]]

Orderings(n) == {p \in [1..n -> 1..n] : \A i, j \in 1..n : p[i] = p[j] => i = j}

\* .sort((a, b) => b.similarity - a.similarity).  With numbers the comparator is
\* consistent and the (stable) sort gives the one order that is non-increasing
\* and keeps equal elements in their old order.  With a NaN the comparator
\* returns NaN against every element, it is no consistent comparator, and the
\* order of the result is implementation-defined: any permutation.
Sorted(sims) ==
    LET n == Len(sims)
        ordered(p) ==
            \A i, j \in 1..n : i < j =>
                /\ ~Less(sims[p[i]].similarity, sims[p[j]].similarity)
                /\ Same(sims[p[i]].similarity, sims[p[j]].similarity) => p[i] < p[j]
        someNaN == \E i \in 1..n : IsNaN(sims[i].similarity)
    IN {[i \in 1..n |-> sims[p[i]]] :
            p \in {q \in Orderings(n) : someNaN \/ ordered(q)}}

\* the outcomes of searchSimilar(queryEmbedding, topK) on the chunk array cs
searchSimilar(cs, queryEmbedding, topK) ==
    IF Len(cs) = 0
    THEN {[kind |-> "returned", error |-> "", results |-> <<>>]}
    ELSE IF \E i \in IndexesOf(cs) : LengthsDiffer(queryEmbedding, cs[i].embedding)
    THEN {[kind |-> "threw", error |-> "Vectors must have the same length",
           results |-> <<>>]}
    ELSE {[kind |-> "returned", error |-> "", results |-> Slice(sorted, 0, topK)] :
              sorted \in Sorted(Similarities(cs, queryEmbedding))}

SearchVectors == {Zero, E1, E2, V3}
QueryVectors == {Zero, E1, Short}

\* the chunk arrays a store can hold when it is searched: two documents added
\* to the empty store, at most MaxStored chunks together
SearchedStores ==
    {AddChunks(AddChunks(<<>>, "d1", DocName("d1"), [i \in 1..Len(e1) |-> "x"], e1),
               "d2", DocName("d2"), [i \in 1..Len(e2) |-> "y"], e2) :
        e1 \in SeqsUpTo(SearchVectors, MaxStored),
        e2 \in SeqsUpTo(SearchVectors, 1)}

InitSearch ==
    /\ ck = ChunkerIdle
    /\ chunks \in {cs \in SearchedStores : Len(cs) <= MaxStored}
    /\ localStorage = Stringify(chunks)
    /\ quota = NoQuota
    /\ given = <<>>
    /\ search = <<>>
    /\ chat = <<>> /\ ing = <<>> /\ RestIdle

SearchCall ==
    /\ \E q \in QueryVectors, topK \in 0..MaxTopK :
         \E out \in searchSimilar(chunks, q, topK) :
            search' = [query |-> q, topK |-> topK, kind |-> out.kind,
                       error |-> out.error, results |-> out.results]
    /\ UNCHANGED <<ck, chunks, localStorage, quota, given, chat, ing, rest>>

NextSearch == SearchCall

SpecSearch == InitSearch /\ [][NextSearch]_vars

\* the stored chunk a result was made from
IsResultOf(r, c, queryEmbedding) ==
    /\ r.content = c.content
    /\ r.documentName = c.metadata.documentName
    /\ r.chunkIndex = c.metadata.chunkIndex
    /\ r.similarity = cosineSimilarity(queryEmbedding, c.embedding)

\* x >= y as numbers (false when either is NaN)
AtLeast(x, y) == ~IsNaN(x) /\ ~IsNaN(y) /\ ~Less(x, y)

\* C5 (as claimed): searchSimilar returns at most topK results, each at least as
\* similar as the next, each one made from a stored chunk, no stored chunk left
\* out having a strictly higher similarity than a returned one; and nothing
\* when the store is empty
C5_TopKRanked ==
    (search # <<>> /\ search.kind = "returned") =>
        LET r == search.results
            q == search.query
            leftOut == {k \in IndexesOf(chunks) :
                            \A i \in IndexesOf(r) : ~IsResultOf(r[i], chunks[k], q)}
        IN /\ Len(r) <= search.topK
           /\ \A i \in 1..(Len(r) - 1) :
                  AtLeast(r[i].similarity, r[i + 1].similarity)
           /\ \A i \in IndexesOf(r) :
                  \E k \in IndexesOf(chunks) : IsResultOf(r[i], chunks[k], q)
           /\ \A k \in leftOut, i \in IndexesOf(r) :
                  ~Less(r[i].similarity, cosineSimilarity(q, chunks[k].embedding))
           /\ chunks = <<>> => r = <<>>

IsZeroNorm(v) == DotFrom(v, v, 1) = 0

\* C6 (as claimed): a search whose query vector or one of whose stored
\* embeddings has zero norm fails with InvalidVector
C6_ZeroNormRejected ==
    (/\ search # <<>>
     /\ chunks # <<>>
     /\ \A k \in IndexesOf(chunks) : ~LengthsDiffer(search.query, chunks[k].embedding)
     /\ \/ IsZeroNorm(search.query)
        \/ \E k \in IndexesOf(chunks) : IsZeroNorm(chunks[k].embedding))
        => (search.kind = "threw" /\ search.error = "InvalidVector")

\* the ranking of C5 does hold of the searches in which no operand has zero norm
RankedWithoutZeroNorm ==
    (search # <<>> /\ chunks # <<>>
        /\ (IsZeroNorm(search.query)
            \/ \E k \in IndexesOf(chunks) : IsZeroNorm(chunks[k].embedding)))
    \/ C5_TopKRanked

----------------------------------------------------------------------------
(* HybridChatInterface.handleSubmit *)

ChatTopK == 5

\* the context block of the system prompt: the sentinel
\* 'No relevant documents found in your local library.' or the entries
NoRelevant == [sentinel |-> TRUE, entries |-> <<>>]

\* searchResults.filter(result => result.similarity > 0.3)
RelevantResults(results) ==
    SelectSeq(results, LAMBDA r : AboveThreshold(r.similarity))

\* searchResults.length > 0 && searchResults[0].similarity > 0.3
HasRelevantContent(results) ==
    Len(results) > 0 /\ AboveThreshold(results[1].similarity)

\* the `Source: ...\nContent: ...` entries joined by blank lines, as the
\* sequence of their (documentName, content) pairs
ContextEntries(results) ==
    [i \in IndexesOf(results) |-> <<results[i].documentName, results[i].content>>]

\* the context placed in the system prompt
ContextOf(results) ==
    IF HasRelevantContent(results)
    THEN [sentinel |-> FALSE, entries |-> ContextEntries(RelevantResults(results))]
    ELSE NoRelevant

\* result.content.substring(0, 200) + '...'  (every content here is shorter
\* than 200 characters)
SourceEntries(results) ==
    [i \in IndexesOf(results) |->
        [documentName |-> results[i].documentName,
         similarity |-> results[i].similarity,
         content |-> <<results[i].content, "...">>]]

\* the sources attached to the final message
SourcesOf(results) ==
    IF HasRelevantContent(results)
    THEN SourceEntries(RelevantResults(results))
    ELSE <<>>

\* a message without sources
Message(id, role, content) ==
    [id |-> id, role |-> role, content |-> content, hasSources |-> FALSE,
     sources |-> <<>>]

Greeting == Message(0, "assistant", <<"Hello!">>)

\* prev.map(msg => msg.id === id ? {...msg, content} : msg)
WithContent(messages, id, content) ==
    [i \in IndexesOf(messages) |->
        IF messages[i].id = id
        THEN [messages[i] EXCEPT !.content = content]
        ELSE messages[i]]

\* prev.map(msg => msg.id === id ? {...msg, content, sources} : msg)
WithSources(messages, id, content, sources) ==
    [i \in IndexesOf(messages) |->
        IF messages[i].id = id
        THEN [messages[i] EXCEPT !.content = content, !.hasSources = TRUE,
                                 !.sources = sources]
        ELSE messages[i]]

Fragments == {"tok"}

\* the interface once checkOllamaConnection has found Ollama and a model
ChatReady ==
    [messages |-> <<Greeting>>, isLoading |-> FALSE, isStreaming |-> FALSE,
     isOllamaAvailable |-> TRUE, selectedModel |-> "llama3",
     pc |-> "idle", asked |-> 0, nextId |-> 1,
     currentInput |-> "", searchResults |-> <<>>, context |-> NoRelevant,
     tempId |-> 0, fullResponse |-> <<>>]

ChatStores ==
    {AddChunks(<<>>, "d1", DocName("d1"), [i \in 1..Len(e) |-> "x"], e) :
        e \in SeqsUpTo(SearchVectors, MaxChatStored)}

InitChat ==
    /\ ck = ChunkerIdle
    /\ chunks \in ChatStores
    /\ localStorage = Stringify(chunks)
    /\ quota = NoQuota
    /\ given = <<>>
    /\ search = <<>>
    /\ chat = ChatReady /\ ing = <<>> /\ RestIdle

\* the catch block (an error notice is appended) and the finally block
Caught(c, notice) ==
    [c EXCEPT !.messages = Append(c.messages,
                                  Message(c.nextId, "assistant", <<notice>>)),
              !.nextId = c.nextId + 1,
              !.isLoading = FALSE, !.isStreaming = FALSE, !.pc = "idle"]

\* handleSubmit up to  await generateEmbedding(currentInput)
HandleSubmit ==
    /\ chat.pc = "idle"
    /\ ~chat.isLoading
    /\ chat.isOllamaAvailable /\ chat.selectedModel # ""
    /\ chat.asked < MaxQuestions
    /\ \E input \in {"q"} :
        chat' = [chat EXCEPT
                    !.messages = Append(chat.messages,
                                        Message(chat.nextId, "user", <<input>>)),
                    !.nextId = chat.nextId + 1,
                    !.asked = chat.asked + 1,
                    !.currentInput = input,
                    !.isLoading = TRUE,
                    !.searchResults = <<>>, !.context = NoRelevant, !.tempId = 0,
                    !.fullResponse = <<>>,
                    !.pc = "embedding"]
    /\ UNCHANGED <<ck, chunks, localStorage, quota, given, search, ing, rest>>

\* generateEmbedding rejects: catch and finally
EmbeddingFails ==
    /\ chat.pc = "embedding"
    /\ chat' = Caught(chat, "Sorry, I encountered an error")
    /\ UNCHANGED <<ck, chunks, localStorage, quota, given, search, ing, rest>>

\* generateEmbedding resolves; the store is searched, the context is built, the
\* in-progress assistant message is appended and ollamaClient.chat is called
Retrieve ==
    /\ chat.pc = "embedding"
    /\ \E queryEmbedding \in QueryVectors :
         \E out \in searchSimilar(chunks, queryEmbedding, ChatTopK) :
            IF out.kind = "threw"
            THEN chat' = Caught(chat, "Sorry, I encountered an error")
            ELSE chat' = [chat EXCEPT
                    !.searchResults = out.results,
                    !.context = ContextOf(out.results),
                    !.tempId = chat.nextId,
                    !.nextId = chat.nextId + 1,
                    !.messages = Append(chat.messages,
                                        Message(chat.nextId, "assistant", <<>>)),
                    !.isStreaming = TRUE,
                    !.fullResponse = <<>>,
                    !.pc = "streaming"]
    /\ UNCHANGED <<ck, chunks, localStorage, quota, given, search, ing, rest>>

\* the callback given to ollamaClient.chat:  fullResponse += chunk  and the
\* message of tempId is updated
OnStream(c, fragment) ==
    LET full == Append(c.fullResponse, fragment)
    IN [c EXCEPT !.fullResponse = full,
                 !.messages = WithContent(c.messages, c.tempId, full)]

\* after  await ollamaClient.chat(...): the sources are attached, then finally
AfterChat(c) ==
    [c EXCEPT !.messages = WithSources(c.messages, c.tempId, c.fullResponse,
                                       SourcesOf(c.searchResults)),
              !.isLoading = FALSE, !.isStreaming = FALSE, !.pc = "idle"]

\* the stream callback is called with a fragment
StreamFragment ==
    /\ chat.pc = "streaming"
    /\ Len(chat.fullResponse) < MaxFragments
    /\ \E fragment \in Fragments : chat' = OnStream(chat, fragment)
    /\ UNCHANGED <<ck, chunks, localStorage, quota, given, search, ing, rest>>

\* ollamaClient.chat resolves: the sources are attached, then finally
ChatReturns ==
    /\ chat.pc = "streaming"
    /\ chat' = AfterChat(chat)
    /\ UNCHANGED <<ck, chunks, localStorage, quota, given, search, ing, rest>>

\* ollamaClient.chat rejects: catch and finally
ChatThrows ==
    /\ chat.pc = "streaming"
    /\ chat' = Caught(chat, "Sorry, I encountered an error")
    /\ UNCHANGED <<ck, chunks, localStorage, quota, given, search, ing, rest>>

NextChat ==
    HandleSubmit \/ EmbeddingFails \/ Retrieve \/ StreamFragment \/ ChatReturns
        \/ ChatThrows

SpecChat == InitChat /\ [][NextChat]_vars

\* x >= 0.3
AtOrAboveThreshold(x) == ~IsNaN(x) /\ ~BelowThreshold(x)

\* the results at the indexes of U, in order
Restricted(results, U) ==
    LET RECURSIVE pick(_)
        pick(i) == IF i > Len(results) THEN <<>>
                   ELSE (IF i \in U THEN <<results[i]>> ELSE <<>>) \o pick(i + 1)
    IN pick(1)

\* the message the answer is streamed into
TempMessage ==
    CHOOSE m \in {chat.messages[i] : i \in IndexesOf(chat.messages)} :
        m.id = chat.tempId

Answered == chat # <<>> /\ chat.tempId # 0 /\ chat.pc = "idle" /\ TempMessage.hasSources

\* C10 (as claimed): the results used for the context and attached as sources
\* are the search results whose similarity is not below 0.3: none below it is
\* used and none at or above it is dropped
C10_ThresholdFilter ==
    (chat # <<>> /\ chat.tempId # 0) =>
        \E U \in SUBSET IndexesOf(chat.searchResults) :
            /\ \A i \in U : ~BelowThreshold(chat.searchResults[i].similarity)
            /\ \A i \in IndexesOf(chat.searchResults) :
                   AtOrAboveThreshold(chat.searchResults[i].similarity) => i \in U
            /\ chat.context =
                   IF U = {} THEN NoRelevant
                   ELSE [sentinel |-> FALSE,
                         entries |-> ContextEntries(Restricted(chat.searchResults, U))]
            /\ Answered =>
                   TempMessage.sources = SourceEntries(Restricted(chat.searchResults, U))

\* x > 3/10, for x = dotProduct / sqrt(normA * normB)
StrictlyAboveThreeTenths(x) ==
    /\ x.normA * x.normB > 0
    /\ x.dotProduct > 0
    /\ 100 * x.dotProduct * x.dotProduct > 9 * x.normA * x.normB

\* x = 3/10
ExactlyThreeTenths(x) ==
    /\ x.normA * x.normB > 0
    /\ x.dotProduct > 0
    /\ 100 * x.dotProduct * x.dotProduct = 9 * x.normA * x.normB

\* C10 (amended): the results used for the context and attached as sources are
\* the search results whose similarity is strictly above 0.3, provided the first
\* search result is itself strictly above 0.3; otherwise no result is used
C10_StrictThresholdFilter ==
    (chat # <<>> /\ chat.tempId # 0) =>
        LET r == chat.searchResults
            U == IF r # <<>> /\ StrictlyAboveThreeTenths(r[1].similarity)
                 THEN {i \in IndexesOf(r) : StrictlyAboveThreeTenths(r[i].similarity)}
                 ELSE {}
        IN /\ chat.context =
                  IF U = {} THEN NoRelevant
                  ELSE [sentinel |-> FALSE,
                        entries |-> ContextEntries(Restricted(r, U))]
           /\ Answered => TempMessage.sources = SourceEntries(Restricted(r, U))

\* an answered question whose search found one chunk above 0.3, which is used,
\* and one at exactly 0.3, which is not
C10_Witness ==
    /\ Answered
    /\ Len(chat.searchResults) = 2
    /\ StrictlyAboveThreeTenths(chat.searchResults[1].similarity)
    /\ ExactlyThreeTenths(chat.searchResults[2].similarity)
    /\ Len(TempMessage.sources) = 1
    /\ Len(chat.context.entries) = 1

----------------------------------------------------------------------------
(* Ingestion: the process-document function (its current source and the    *)
(* older one) and processFile of HybridDocumentUpload.  One invocation runs *)
(* at a time; every await is a step of its own.                             *)

MaxUploads == 2        \* most invocations of one ingestion path
MaxDocChunks == 3      \* most chunks of one uploaded document

\* The documents table is created outside the sources at hand: its id column
\* either rejects a second row of the same id or accepts it.  The
\* specification lets a document id be uploaded again and reach indexed.
DocumentsIdUnique == BOOLEAN

\* content lengths that give 0, 1, .., MaxDocChunks windows of 1000 with
\* overlap 200, and one no longer than the local chunker's shortest chunk
ContentLengths ==
    {0, MinChunkLen}
    \cup {DefaultChunkSize + (k - 1) * (DefaultChunkSize - DefaultOverlap) :
            k \in 1..MaxDocChunks}

\* the windows [start, end) the loop of splitIntoChunks cuts from a text of
\* the given length (chunkSize > overlap)
RECURSIVE Windows(_, _, _, _)
Windows(start, length, chunkSize, overlap) ==
    IF start >= length THEN <<>>
    ELSE LET end == WindowEnd(start, chunkSize, length) IN
         IF end = length THEN <<<<start, end>>>>
         ELSE <<<<start, end>>>> \o Windows(NextStart(end, overlap), length, chunkSize, overlap)

\* splitIntoChunks on a content without whitespace, every chunk named by the
\* upload it is cut from and its window; the local chunker keeps the chunks
\* longer than 50 characters
splitIntoChunks(impl, content, chunkSize, overlap) ==
    LET ws == Windows(0, content.length, chunkSize, overlap)
        kept == IF impl = "local"
                THEN SelectSeq(ws, LAMBDA w : w[2] - w[1] > MinChunkLen)
                ELSE ws
    IN [k \in IndexesOf(kept) |->
            [upload |-> content.upload, start |-> kept[k][1], end |-> kept[k][2]]]

NoRequest == [documentId |-> "none", content |-> [upload |-> 0, length |-> 0]]

NoFailure == [step |-> "none", index |-> 0]

\* the vector an embedding call answers with, named by the text it was given
EmbeddingFor(text) == [of |-> text]

\* error.message of the error response
NoDetail == [kind |-> "none", status |-> 0, body |-> FALSE]

\* a message that carries the status the service answered with, and its body
\* or not
ServiceError(status, withBody) == [kind |-> "service", status |-> status, body |-> withBody]

\* a message that names something else
OtherError(kind) == [kind |-> kind, status |-> 0, body |-> FALSE]

\* what a fetch of the OpenAI API ends with: a 2xx response, a response of
\* another status with the body that describes the error, or a rejection
ServiceAnswers ==
    {[kind |-> "ok", status |-> 200], [kind |-> "rejected", status |-> 0]}
    \cup {[kind |-> "status", status |-> st] : st \in {401, 500}}

NoAnswer == [kind |-> "none", status |-> 0]

IngestIdle(path, unique, hasKey) ==
    [path |-> path, documentsIdUnique |-> unique, hasKey |-> hasKey,
     documents |-> <<>>, document_chunks |-> <<>>, processingFiles |-> <<>>,
     calls |-> 0, pc |-> "idle", req |-> NoRequest, bodyUsed |-> FALSE,
     chunks |-> <<>>, i |-> 0, chunksWithEmbeddings |-> <<>>, embeddings |-> <<>>,
     response |-> "none",
     \* history of the invocation: whether it inserted its document row, the
     \* step that failed, the chunks the store held for its id when it began,
     \* and, per invocation, the chunks its chunker returned
     inserted |-> FALSE, failed |-> NoFailure, before |-> <<>>, reupload |-> FALSE,
     batches |-> <<>>,
     \* history of the invocation: the embedding requests it issued, in the
     \* order of issue, each with the chunk index and how it ended
     requests |-> <<>>,
     \* error.message of the error response; history of the invocation:
     \* whether the request was authorized, the tables when it arrived, and
     \* what the embeddings call that failed ended with
     detail |-> NoDetail, auth |-> "none",
     tablesBefore |-> [documents |-> <<>>, document_chunks |-> <<>>],
     embeddingAnswer |-> NoAnswer]

\* the rows of a table (or chunks of the local store) of one document id
RowsOf(rows, documentId) == SelectSeq(rows, LAMBDA r : r.document_id = documentId)

HasDocument(documents, documentId) ==
    \E k \in IndexesOf(documents) : documents[k].id = documentId

\* .from('documents').update({ status }).eq('id', documentId)
UpdateStatus(documents, documentId, status) ==
    [k \in IndexesOf(documents) |->
        IF documents[k].id = documentId
        THEN [documents[k] EXCEPT !.status = status]
        ELSE documents[k]]

\* (mutation) the exception is not noticed and the handler goes on with the
\* insert of the document row
ThrownIgnored(c, step, index) == [c EXCEPT !.pc = "insertDocument"]

\* an exception reaches the catch block of the handler
Thrown(c, step, index) ==
    [c EXCEPT !.pc = "catch", !.failed = [step |-> step, index |-> index],
              !.detail = OtherError(step)]

\* an embedding request is issued for chunk i
Requested(requests, i) == Append(requests, [index |-> i, outcome |-> "pending"])

\* the request issued last has ended
Settled(requests, outcome) == [requests EXCEPT ![Len(requests)].outcome = outcome]

\* (mutation) a chunk whose embedding call failed is skipped
SkipFailedChunk(c) == [c EXCEPT !.i = c.i + 1, !.pc = "embed"]

\* the embedding call of chunk i failed: a rejected fetch, a response that is
\* not ok (index.ts:108-112), or one without data (part_001:78) throws, and
\* the loop's own catch rethrows (index.ts:123-126)
EmbeddingFailed(c) == [c EXCEPT !.pc = "catch"]

InitIngest ==
    /\ RestIdle
    /\ ck = ChunkerIdle
    /\ InitStoreVars
    /\ quota = NoQuota
    /\ search = <<>>
    /\ chat = <<>>
    /\ \/ \E path \in {"server", "older"}, unique \in DocumentsIdUnique, hasKey \in BOOLEAN :
            ing = IngestIdle(path, unique, hasKey)
       \/ ing = IngestIdle("local", FALSE, TRUE)

StoreUnchanged == UNCHANGED <<ck, chunks, localStorage, quota, given, search, chat, rest>>

ServerPath == ing.path \in {"server", "older"}

\* the request arrives: createClient, await req.json() (the body is read),
\* the Authorization header is taken
Invoke ==
    /\ ServerPath /\ ing.pc = "idle" /\ ing.calls < MaxUploads
    /\ \E documentId \in DocIds, length \in ContentLengths, hasAuthHeader \in BOOLEAN :
        LET c == [ing EXCEPT
                    !.calls = ing.calls + 1,
                    !.req = [documentId |-> documentId,
                             content |-> [upload |-> ing.calls + 1, length |-> length]],
                    !.bodyUsed = TRUE,
                    !.chunks = <<>>, !.i = 0, !.chunksWithEmbeddings = <<>>,
                    !.response = "none", !.inserted = FALSE, !.failed = NoFailure,
                    !.before = RowsOf(ing.document_chunks, documentId),
                    !.batches = Append(ing.batches, <<>>),
                    !.requests = <<>>,
                    !.detail = NoDetail,
                    !.auth = IF hasAuthHeader THEN "token" ELSE "missing",
                    !.tablesBefore = [documents |-> ing.documents,
                                      document_chunks |-> ing.document_chunks],
                    !.embeddingAnswer = NoAnswer,
                    !.reupload = \E k \in IndexesOf(ing.documents) :
                                    /\ ing.documents[k].id = documentId
                                    /\ ing.documents[k].status = "indexed"]
        IN ing' = IF hasAuthHeader THEN [c EXCEPT !.pc = "auth"]
                  ELSE Thrown(c, "auth", 0)
    /\ StoreUnchanged

\* await supabaseClient.auth.getUser(token); then the content is prepared
Authenticate ==
    /\ ServerPath /\ ing.pc = "auth"
    /\ \E user \in BOOLEAN :
        ing' = IF user THEN [ing EXCEPT !.auth = "user", !.pc = "insertDocument"]
               ELSE Thrown([ing EXCEPT !.auth = "unresolved"], "auth", 0)
    /\ StoreUnchanged

\* await documents.insert({id, ..., status: 'processing'}); then the API key
\* is looked up, the content is split and the embedding loop begins
InsertDocument ==
    /\ ServerPath /\ ing.pc = "insertDocument"
    /\ \E docError \in BOOLEAN :
        /\ (ing.documentsIdUnique /\ HasDocument(ing.documents, ing.req.documentId))
              => docError
        /\ ing' =
            IF docError THEN Thrown(ing, "insertDocument", 0)
            ELSE LET c == [ing EXCEPT
                            !.documents = Append(ing.documents,
                                [id |-> ing.req.documentId, status |-> "processing",
                                 upload |-> ing.req.content.upload]),
                            !.inserted = TRUE]
                     split == splitIntoChunks("server", ing.req.content,
                                              DefaultChunkSize, DefaultOverlap)
                 IN IF ~ing.hasKey THEN Thrown(c, "key", 0)
                    ELSE [c EXCEPT !.chunks = split, !.batches[ing.calls] = split,
                                   !.i = 0, !.pc = "embed"]
    /\ StoreUnchanged

\* a pass of the embedding loop begins: fetch(...) is called for chunk i
FetchEmbedding ==
    /\ ServerPath /\ ing.pc = "embed" /\ ing.i < Len(ing.chunks)
    /\ ing' = [ing EXCEPT !.requests = Requested(ing.requests, ing.i),
                          !.pc = "embedding"]
    /\ StoreUnchanged

\* what the handler throws when the embeddings call answered with a status
\* that is not 2xx: index.ts:108-112 throws 'OpenAI API error: <status> -
\* <body>'; part_001:77-78 reads data[0] of the error body
ChunkEmbeddingError(path, answer) ==
    IF answer.kind = "rejected" THEN OtherError("fetch")
    ELSE IF path = "server" THEN ServiceError(answer.status, TRUE)
    ELSE OtherError("TypeError")

\* the pass ends: await fetch(...), await the body
EmbedChunk ==
    /\ ServerPath /\ ing.pc = "embedding" /\ ing.i < Len(ing.chunks)
    /\ \E answer \in ServiceAnswers :
        ing' = IF answer.kind = "ok"
               THEN [ing EXCEPT
                        !.chunksWithEmbeddings = Append(ing.chunksWithEmbeddings,
                            [document_id |-> ing.req.documentId,
                             chunk_index |-> ing.i,
                             content |-> ing.chunks[ing.i + 1],
                             embedding |-> EmbeddingFor(ing.chunks[ing.i + 1])]),
                        !.requests = Settled(ing.requests, "ok"),
                        !.i = ing.i + 1, !.pc = "embed"]
               ELSE [EmbeddingFailed(ing) EXCEPT
                        !.requests = Settled(ing.requests, "failed"),
                        !.failed = [step |-> "embedding", index |-> ing.i],
                        !.embeddingAnswer = answer,
                        !.detail = ChunkEmbeddingError(ing.path, answer)]
    /\ StoreUnchanged

\* (mutation) the last row of the batch is not stored
InsertedButLast(table, rows) ==
    table \o (IF rows = <<>> THEN <<>> ELSE SubSeq(rows, 1, Len(rows) - 1))

\* document_chunks after  .insert(chunksWithEmbeddings)  without error
Inserted(table, rows) == table \o rows

\* await document_chunks.insert(chunksWithEmbeddings)
InsertChunks ==
    /\ ServerPath /\ ing.pc = "embed" /\ ing.i >= Len(ing.chunks)
    /\ \E chunksError \in BOOLEAN :
        ing' = IF chunksError THEN Thrown(ing, "insertChunks", 0)
               ELSE [ing EXCEPT
                        !.document_chunks =
                            Inserted(ing.document_chunks, ing.chunksWithEmbeddings),
                        !.pc = "updateStatus"]
    /\ StoreUnchanged

\* await documents.update({ status: 'indexed' }).eq('id', documentId); the
\* success response
MarkIndexed ==
    /\ ServerPath /\ ing.pc = "updateStatus"
    /\ \E updateError \in BOOLEAN :
        ing' = IF updateError THEN Thrown(ing, "updateStatus", 0)
               ELSE [ing EXCEPT
                        !.documents = UpdateStatus(ing.documents, ing.req.documentId, "indexed"),
                        !.pc = "idle", !.response = "ok"]
    /\ StoreUnchanged

\* the catch block.  index.ts:165-181 reads the request again with
\* req.text(): on a body already read by req.json() that throws, the inner
\* catch logs it and the status is not written.  part_001:108-114 only
\* answers.
CatchBlock ==
    /\ ServerPath /\ ing.pc = "catch"
    /\ ing' = [ing EXCEPT
                !.documents =
                    IF ing.path = "server" /\ ~ing.bodyUsed
                    THEN UpdateStatus(ing.documents, ing.req.documentId, "error")
                    ELSE ing.documents,
                !.pc = "idle", !.response = "error"]
    /\ StoreUnchanged

\* setProcessingFiles(prev => prev.map(f => f.id === fileId ? {...f, status} : f))
SetStatus(files, fileId, status) ==
    [k \in IndexesOf(files) |->
        IF files[k].id = fileId THEN [files[k] EXCEPT !.status = status] ELSE files[k]]

\* the catch block of processFile: the tracker shows the error
FileFailed(c, step, index) ==
    [c EXCEPT !.processingFiles = SetStatus(c.processingFiles, c.req.documentId, "error"),
              !.pc = "idle", !.response = "error",
              !.failed = [step |-> step, index |-> index],
              !.detail = OtherError(step)]

\* crypto.randomUUID(): an id no tracker and no stored chunk carries
FreshIds ==
    {d \in DocIds :
        /\ \A k \in IndexesOf(ing.processingFiles) : ing.processingFiles[k].id # d
        /\ ChunksOf(chunks, d) = <<>>}

\* processFile up to  await readFileContent(file)
ProcessFile ==
    /\ ing.path = "local" /\ ing.pc = "idle" /\ ing.calls < MaxUploads
    /\ \E fileId \in FreshIds, length \in ContentLengths :
        ing' = [ing EXCEPT
                    !.calls = ing.calls + 1,
                    !.req = [documentId |-> fileId,
                             content |-> [upload |-> ing.calls + 1, length |-> length]],
                    !.processingFiles =
                        Append(ing.processingFiles,
                               [id |-> fileId, status |-> "reading",
                                upload |-> ing.calls + 1]),
                    !.batches = Append(ing.batches, <<>>),
                    !.requests = <<>>,
                    !.detail = NoDetail, !.embeddingAnswer = NoAnswer,
                    !.chunks = <<>>, !.i = 0, !.embeddings = <<>>,
                    !.response = "none", !.failed = NoFailure,
                    !.before = ChunksOf(chunks, fileId),
                    !.pc = "read"]
    /\ StoreUnchanged

\* the content is read (or the read is rejected), split, and
\* generateEmbeddings begins
ReadFile ==
    /\ ing.path = "local" /\ ing.pc = "read"
    /\ \E read \in BOOLEAN :
        ing' = IF read
               THEN [ing EXCEPT
                        !.chunks = splitIntoChunks("local", ing.req.content,
                                                   DefaultChunkSize, DefaultOverlap),
                        !.batches[ing.calls] =
                            splitIntoChunks("local", ing.req.content,
                                            DefaultChunkSize, DefaultOverlap),
                        !.processingFiles =
                            SetStatus(ing.processingFiles, ing.req.documentId, "embedding"),
                        !.i = 0, !.pc = "embed"]
               ELSE FileFailed(ing, "read", 0)
    /\ StoreUnchanged

\* (mutation) the loop of generateEmbeddings goes on with the same text after
\* a failure
GenerateEmbeddingRetried(c) == [c EXCEPT !.pc = "embed"]

\* generateEmbedding rethrows, generateEmbeddings lets it through and
\* processFile catches it
GenerateEmbeddingFailed(c) == FileFailed(c, "embedding", c.i)

\* a pass of the loop of generateEmbeddings begins: generateEmbedding(texts[i])
\* is called
CallGenerateEmbedding ==
    /\ ing.path = "local" /\ ing.pc = "embed" /\ ing.i < Len(ing.chunks)
    /\ ing' = [ing EXCEPT !.requests = Requested(ing.requests, ing.i),
                          !.pc = "embedding"]
    /\ StoreUnchanged

\* the pass ends: await generateEmbedding(texts[i])
GenerateEmbedding ==
    /\ ing.path = "local" /\ ing.pc = "embedding" /\ ing.i < Len(ing.chunks)
    /\ \E ok \in BOOLEAN :
        ing' = IF ok
               THEN [ing EXCEPT !.embeddings = Append(ing.embeddings,
                                                      EmbeddingFor(ing.chunks[ing.i + 1])),
                                !.requests = Settled(ing.requests, "ok"),
                                !.i = ing.i + 1, !.pc = "embed"]
               ELSE GenerateEmbeddingFailed(
                        [ing EXCEPT !.requests = Settled(ing.requests, "failed")])
    /\ StoreUnchanged

\* generateEmbeddings returns; vectorStore.addDocumentChunks(fileId, file.name,
\* chunks, embeddings); the tracker shows completed
StoreChunks ==
    /\ ing.path = "local" /\ ing.pc = "embed" /\ ing.i >= Len(ing.chunks)
    /\ addDocumentChunks(ing.req.documentId, DocName(ing.req.documentId),
                         ing.chunks, ing.embeddings)
    /\ ing' = [ing EXCEPT
                !.processingFiles =
                    SetStatus(ing.processingFiles, ing.req.documentId, "completed"),
                !.pc = "idle", !.response = "ok"]

NextIngest ==
    \/ Invoke \/ Authenticate \/ InsertDocument \/ FetchEmbedding \/ EmbedChunk
    \/ InsertChunks \/ MarkIndexed \/ CatchBlock
    \/ ProcessFile \/ ReadFile \/ CallGenerateEmbedding \/ GenerateEmbedding
    \/ StoreChunks

SpecIngest == InitIngest /\ [][NextIngest]_vars

\* what the vector store of the path holds for a document id
StoredFor(documentId) ==
    IF ServerPath THEN RowsOf(ing.document_chunks, documentId)
    ELSE ChunksOf(chunks, documentId)

\* the invocation has ended and the embedding call of one of its chunks failed
EmbeddingFailureEnded == ing.pc = "idle" /\ ing.failed.step = "embedding"

\* C1 (as claimed): in every ingestion path, after an ingestion in which the
\* embedding call of a chunk failed, whichever index it had, the vector store
\* holds no chunk for the document id
C1_AllOrNothing ==
    EmbeddingFailureEnded => StoredFor(ing.req.documentId) = <<>>

\* C1 (amended): in every ingestion path, an ingestion in which the embedding
\* call of a chunk failed writes no chunk: the store holds for the document
\* id what it held when the ingestion began, which is nothing for an id that
\* had no chunks stored (as every id of processFile)
C1_FailedIngestionWritesNothing ==
    EmbeddingFailureEnded =>
        /\ StoredFor(ing.req.documentId) = ing.before
        /\ ing.path = "local" => StoredFor(ing.req.documentId) = <<>>

\* the embedding call of the second chunk of a three-chunk document failed in
\* the process-document function, and the store holds nothing for the id
C1_Witness ==
    /\ ing.path = "server" /\ EmbeddingFailureEnded
    /\ ing.failed.index = 1 /\ Len(ing.chunks) = 3
    /\ Len(ing.chunksWithEmbeddings) = 1
    /\ ing.inserted /\ ing.response = "error"
    /\ StoredFor(ing.req.documentId) = <<>>

\* the document rows the invocation inserted
InsertedRows ==
    {k \in IndexesOf(ing.documents) :
        /\ ing.documents[k].id = ing.req.documentId
        /\ ing.documents[k].upload = ing.req.content.upload}

\* the steps of the handler that follow the insert of the document row
StepsAfterInsert == {"embedding", "insertChunks", "updateStatus"}

\* C2: when the process-document handler has failed at a step after it
\* inserted the document row with status processing (an embedding call, the
\* chunk insert, the status update), the persisted status of the document is
\* error, never still processing
C2_ErrorStatusPersisted ==
    (/\ ServerPath /\ ing.pc = "idle" /\ ing.response = "error"
     /\ ing.inserted /\ ing.failed.step \in StepsAfterInsert) =>
        \A k \in InsertedRows : ing.documents[k].status = "error"

\* C4: when the process-document handler, invoked for a document id that was
\* indexed before, has reached indexed, document_chunks holds for the id only
\* the chunks of this invocation
C4_ReuploadReplaces ==
    (ServerPath /\ ing.pc = "idle" /\ ing.response = "ok" /\ ing.reupload) =>
        /\ \A k \in InsertedRows : ing.documents[k].status = "indexed"
        /\ StoredFor(ing.req.documentId) = ing.chunksWithEmbeddings

----------------------------------------------------------------------------
(* The chat-with-docs function: its source under supabase/functions and    *)
(* the other source of it (part_000).  The prompt paths together: both     *)
(* functions and HybridChatInterface.                                       *)

MaxServerResults == 2  \* most rows the search_documents call returns here

MatchCount == 5        \* match_count: 5

\* The search_documents procedure is defined outside the sources at hand: it
\* answers with the rows above match_threshold, at most match_count of them,
\* ranked.  The rows it can answer with here, by rank:
RankedRows ==
    <<[document_name |-> DocName("d1"), content |-> "x",
       similarity |-> cosineSimilarity(E1, E1)],
      [document_name |-> DocName("d2"), content |-> "y",
       similarity |-> cosineSimilarity(E1, E1)]>>

SearchDocumentsRows ==
    {SubSeq(RankedRows, 1, n) : n \in 0..Min2(MaxServerResults, Min2(MatchCount, Len(RankedRows)))}
    \cup {SubSeq(RankedRows, 2, 2)}

\* index.ts:80-82  searchResults.map(...).join('\n\n'): the block of the
\* entries, empty when there is no row
JoinedContext(searchResults) ==
    [sentinel |-> FALSE,
     entries |-> [k \in IndexesOf(searchResults) |->
                    <<searchResults[k].document_name, searchResults[k].content>>]]

\* part_000:104-108  the joined entries, or 'No relevant documents found in
\* your library.' when there is no row
ContextOrSentinel(searchResults) ==
    IF Len(searchResults) > 0 THEN JoinedContext(searchResults) ELSE NoRelevant

\* the context block the function of the given source puts in systemPrompt
ServerContext(path, searchResults) ==
    IF path = "part_000" THEN ContextOrSentinel(searchResults)
    ELSE JoinedContext(searchResults)

Users == {"u1", "u2"}

HandlerIdle(path) ==
    [path |-> path, pc |-> "idle", calls |-> 0, searchResults |-> <<>>,
     context |-> NoRelevant, prompted |-> FALSE,
     chat_messages |-> <<>>, response |-> "none",
     user |-> "nobody", queryEmbedding |-> EmbeddingFor("none"),
     detail |-> NoDetail, sources |-> <<>>,
     \* history of the invocation: whether the request was authorized, the
     \* chat_messages when it arrived, the service calls and procedure calls
     \* it made, and what the embeddings call ended with
     auth |-> "none", before |-> <<>>, services |-> <<>>, rpc |-> <<>>,
     embeddingAnswer |-> NoAnswer]

ServerChat == handler.path \in {"index", "part_000"}

LocalChat == handler.path = "local"

PromptUnchanged ==
    UNCHANGED <<ck, chunks, localStorage, quota, given, search, chat, ing,
                ollama, pipe, checks, cos>>

\* an exception reaches the catch block: the error response carries
\* error.message
HandlerThrown(c, detail) ==
    [c EXCEPT !.pc = "idle", !.response = "error", !.detail = detail]

\* a database call answered with an error, which is thrown
HandlerThrows == handler' = HandlerThrown(handler, OtherError("database"))

\* the request arrives: req.json(), the Authorization header.  Without the
\* header part_000:25-28 throws 'Authorization header required' and
\* index.ts:25-26 calls replace on null.
ChatRequest ==
    /\ ServerChat /\ handler.pc = "idle" /\ handler.calls < MaxQuestions
    /\ \E hasAuthHeader \in BOOLEAN :
        LET c == [handler EXCEPT
                      !.calls = handler.calls + 1,
                      !.searchResults = <<>>, !.context = NoRelevant,
                      !.prompted = FALSE, !.response = "none",
                      !.user = "nobody", !.queryEmbedding = EmbeddingFor("none"),
                      !.detail = NoDetail, !.sources = <<>>,
                      !.auth = IF hasAuthHeader THEN "token" ELSE "missing",
                      !.before = handler.chat_messages,
                      !.services = <<>>, !.rpc = <<>>,
                      !.embeddingAnswer = NoAnswer]
        IN handler' =
            IF hasAuthHeader THEN [c EXCEPT !.pc = "getUser"]
            ELSE HandlerThrown(c, IF handler.path = "part_000"
                                  THEN OtherError("Authorization header required")
                                  ELSE OtherError("TypeError"))
    /\ PromptUnchanged

\* await auth.getUser(token) (index.ts: setSession, getUser()); then the API
\* key is read
GetUser ==
    /\ ServerChat /\ handler.pc = "getUser"
    /\ \E user \in Users \cup {"nobody"}, hasKey \in BOOLEAN :
        handler' =
            IF user = "nobody"
            THEN HandlerThrown([handler EXCEPT !.auth = "unresolved"],
                               OtherError("Unauthorized"))
            ELSE IF ~hasKey
            THEN HandlerThrown([handler EXCEPT !.auth = "user", !.user = user],
                               OtherError("OpenAI API key not configured"))
            ELSE [handler EXCEPT !.auth = "user", !.user = user, !.pc = "saveUser"]
    /\ PromptUnchanged

\* await chat_messages.insert({role: 'user', ...})
SaveUserMessage ==
    /\ ServerChat /\ handler.pc = "saveUser"
    /\ \/ HandlerThrows
       \/ handler' = [handler EXCEPT
                        !.chat_messages = Append(handler.chat_messages, "user"),
                        !.pc = "embedding"]
    /\ PromptUnchanged

\* what the handler throws when the embeddings call answered with a status
\* that is not 2xx: part_000:76-80 throws 'Failed to generate embedding:
\* <status>'; index.ts:65-66 reads data[0] of the error body
QueryEmbeddingError(path, answer) ==
    IF path = "part_000" THEN ServiceError(answer.status, FALSE)
    ELSE OtherError("TypeError")

\* await fetch(embeddings), await the body
EmbedQuestion ==
    /\ ServerChat /\ handler.pc = "embedding"
    /\ \E answer \in ServiceAnswers :
        LET c == [handler EXCEPT !.services = Append(handler.services, "embeddings"),
                                 !.embeddingAnswer = answer]
        IN handler' =
            IF answer.kind = "ok"
            THEN [c EXCEPT !.queryEmbedding = EmbeddingFor("message"), !.pc = "search"]
            ELSE IF answer.kind = "rejected"
            THEN HandlerThrown(c, OtherError("fetch"))
            ELSE HandlerThrown(c, QueryEmbeddingError(handler.path, answer))
    /\ PromptUnchanged

\* the arguments of rpc('search_documents', ...)
SearchArguments(c) ==
    [query_embedding |-> c.queryEmbedding,
     match_threshold |-> <<ThresholdNum, ThresholdDen>>,
     match_count |-> MatchCount,
     filter_user_id |-> c.user]

\* await rpc('search_documents', ...); the context and systemPrompt are
\* built and the completion is requested
SearchDocuments ==
    /\ ServerChat /\ handler.pc = "search"
    /\ LET c == [handler EXCEPT !.rpc = Append(handler.rpc, SearchArguments(handler))]
       IN \/ handler' = HandlerThrown(c, OtherError("database"))
          \/ \E rows \in SearchDocumentsRows :
               handler' = [c EXCEPT
                             !.searchResults = rows,
                             !.context = ServerContext(handler.path, rows),
                             !.prompted = TRUE,
                             !.services = Append(handler.services, "completions"),
                             !.pc = "completion"]
    /\ PromptUnchanged

\* what the handler throws when the completions call answered with a status
\* that is not 2xx: part_000:141-145, index.ts:114-115
CompletionError(path, answer) ==
    IF path = "part_000" THEN ServiceError(answer.status, FALSE)
    ELSE OtherError("TypeError")

\* (mutation) the sources are listed from the last row to the first
SourcesReversed(searchResults) ==
    [k \in IndexesOf(searchResults) |->
        [documentName |-> searchResults[Len(searchResults) + 1 - k].document_name,
         similarity |-> searchResults[Len(searchResults) + 1 - k].similarity,
         content |-> <<searchResults[Len(searchResults) + 1 - k].content, "...">>]]

\* searchResults.map(result => ({documentName, similarity,
\* content: result.content.substring(0, 200) + '...'})); the contents here are
\* shorter than 200 characters
Sources(searchResults) ==
    [k \in IndexesOf(searchResults) |->
        [documentName |-> searchResults[k].document_name,
         similarity |-> searchResults[k].similarity,
         content |-> <<searchResults[k].content, "...">>]]

\* await fetch(chat/completions), await the body; the sources are built and
\* the insert of the assistant message begins
Complete ==
    /\ ServerChat /\ handler.pc = "completion"
    /\ \E answer \in ServiceAnswers :
        handler' =
            IF answer.kind = "ok"
            THEN [handler EXCEPT !.sources = Sources(handler.searchResults),
                                 !.pc = "saveAssistant"]
            ELSE IF answer.kind = "rejected"
            THEN HandlerThrown(handler, OtherError("fetch"))
            ELSE HandlerThrown(handler, CompletionError(handler.path, answer))
    /\ PromptUnchanged

\* await chat_messages.insert({role: 'assistant', ..., sources}); the response
SaveAssistantMessage ==
    /\ ServerChat /\ handler.pc = "saveAssistant"
    /\ \/ HandlerThrows
       \/ handler' = [handler EXCEPT
                        !.chat_messages = Append(handler.chat_messages, "assistant"),
                        !.pc = "idle", !.response = "ok"]
    /\ PromptUnchanged

InitPrompt ==
    /\ ck = ChunkerIdle
    /\ quota = NoQuota
    /\ given = <<>> /\ search = <<>> /\ ing = <<>>
    /\ ollama = <<>> /\ pipe = <<>> /\ checks = <<>> /\ cos = <<>>
    /\ \/ /\ handler \in {HandlerIdle("index"), HandlerIdle("part_000")}
          /\ chunks = <<>> /\ localStorage = NoItem /\ chat = <<>>
       \/ /\ handler = HandlerIdle("local")
          /\ chunks \in ChatStores /\ localStorage = Stringify(chunks) /\ chat = ChatReady

NextPrompt ==
    \/ ChatRequest \/ GetUser \/ SaveUserMessage \/ EmbedQuestion
    \/ SearchDocuments \/ Complete \/ SaveAssistantMessage
    \/ (LocalChat /\ NextChat)

SpecPrompt == InitPrompt /\ [][NextPrompt]_vars

\* no search result of the local path passes the threshold
NothingRelevant(results) ==
    \A k \in IndexesOf(results) : ~AboveThreshold(results[k].similarity)

\* C11: in every chat path, when retrieval gave no result passing the
\* threshold (also on an empty store), the context block of the system prompt
\* is the 'no relevant documents found' sentinel, never an empty block
C11_SentinelWhenNothingRelevant ==
    /\ (ServerChat /\ handler.prompted /\ handler.searchResults = <<>>)
            => handler.context = NoRelevant
    /\ (LocalChat /\ chat.tempId # 0 /\ NothingRelevant(chat.searchResults))
            => chat.context = NoRelevant

----------------------------------------------------------------------------
(* OllamaClient.chat with a stream callback, called by handleSubmit *)

\* the fragments the backend sends, in order
FragmentAt(k) ==
    IF k = 1 THEN "The " ELSE IF k = 2 THEN "answer " ELSE IF k = 3 THEN "is 42." ELSE "more"

\* The body of the response: one line of JSON per fragment and a last line
\* with done: true, every line ended by '\n'.  A line is written as its first
\* part, its second part and the line feed (part 0).
LineOf(k) == <<[line |-> k, part |-> 1], [line |-> k, part |-> 2], [line |-> k, part |-> 0]>>

RECURSIVE BodyFrom(_, _)
BodyFrom(k, n) == IF k > n + 1 THEN <<>> ELSE LineOf(k) \o BodyFrom(k + 1, n)

\* chunk.split('\n').filter(line => line.trim())
RECURSIVE SplitLines(_, _)
SplitLines(chunk, line) ==
    IF chunk = <<>> THEN (IF line = <<>> THEN <<>> ELSE <<line>>)
    ELSE IF Head(chunk).part = 0
         THEN (IF line = <<>> THEN <<>> ELSE <<line>>) \o SplitLines(Tail(chunk), <<>>)
         ELSE SplitLines(Tail(chunk), Append(line, Head(chunk)))

\* JSON.parse(line) succeeds on a whole line only
Parses(line) ==
    /\ Len(line) = 2
    /\ line[1].part = 1 /\ line[2].part = 2
    /\ line[1].line = line[2].line

\* for (const line of lines): a line that does not parse is skipped, a
\* response is added to fullResponse and given to onStream, done returns
RECURSIVE ForLines(_, _, _)
ForLines(lines, n, st) ==
    IF lines = <<>> THEN st
    ELSE IF ~Parses(Head(lines)) THEN ForLines(Tail(lines), n, st)
    ELSE LET k == Head(lines)[1].line
             done == k = n + 1
             st1 == IF done THEN st
                    ELSE [st EXCEPT !.fullResponse = Append(st.fullResponse, FragmentAt(k)),
                                    !.caller = OnStream(st.caller, FragmentAt(k)),
                                    !.delivered = Append(st.delivered, FragmentAt(k))]
         IN IF done THEN [st1 EXCEPT !.returned = TRUE]
            ELSE ForLines(Tail(lines), n, st1)

\* delivered: history, the fragments given to onStream
OllamaIdle ==
    [pc |-> "idle", sent |-> <<>>, body |-> <<>>, fullResponse |-> <<>>,
     result |-> <<>>, delivered |-> <<>>]

StreamUnchanged ==
    UNCHANGED <<ck, chunks, localStorage, quota, given, search, ing,
                handler, pipe, checks, cos>>

\* await fetch(.../api/chat): a response that is not ok throws, which
\* handleSubmit catches; otherwise the body is read
ChatFetch ==
    /\ chat.pc = "streaming" /\ ollama.pc = "idle"
    /\ \/ /\ chat' = Caught(chat, "Sorry, I encountered an error")
          /\ ollama' = [ollama EXCEPT !.pc = "threw"]
       \/ /\ \E n \in 0..MaxFragments :
                ollama' = [pc |-> "reading",
                           sent |-> [k \in 1..n |-> FragmentAt(k)],
                           body |-> BodyFrom(1, n),
                           fullResponse |-> <<>>, result |-> <<>>,
                           delivered |-> <<>>]
          /\ UNCHANGED chat
    /\ StreamUnchanged

\* await reader.read() gives the next bytes of the body, however many; the
\* lines of the chunk are handled
ReaderRead ==
    /\ ollama.pc = "reading" /\ ollama.body # <<>>
    /\ \E size \in 1..Len(ollama.body) :
        LET chunk == SubSeq(ollama.body, 1, size)
            st == ForLines(SplitLines(chunk, <<>>), Len(ollama.sent),
                           [fullResponse |-> ollama.fullResponse, caller |-> chat,
                            returned |-> FALSE, delivered |-> ollama.delivered])
        IN /\ chat' = st.caller
           /\ ollama' = [ollama EXCEPT
                            !.body = SubSeq(ollama.body, size + 1, Len(ollama.body)),
                            !.fullResponse = st.fullResponse,
                            !.delivered = st.delivered,
                            !.pc = IF st.returned THEN "returned" ELSE "reading",
                            !.result = IF st.returned THEN st.fullResponse ELSE <<>>]
    /\ StreamUnchanged

\* reader.read() reports the end of the body: the loop is left and
\* fullResponse is returned
ReaderDone ==
    /\ ollama.pc = "reading" /\ ollama.body = <<>>
    /\ ollama' = [ollama EXCEPT !.pc = "returned", !.result = ollama.fullResponse]
    /\ UNCHANGED chat
    /\ StreamUnchanged

\* handleSubmit goes on after  await ollamaClient.chat(...)
ChatResolved ==
    /\ chat.pc = "streaming" /\ ollama.pc = "returned"
    /\ chat' = AfterChat(chat)
    /\ ollama' = [ollama EXCEPT !.pc = "resolved"]
    /\ StreamUnchanged

InitStream ==
    /\ ck = ChunkerIdle
    /\ chunks \in ChatStores /\ Len(chunks) <= 1
    /\ localStorage = Stringify(chunks)
    /\ quota = NoQuota
    /\ given = <<>> /\ search = <<>> /\ ing = <<>>
    /\ chat = ChatReady
    /\ ollama = OllamaIdle
    /\ handler = <<>> /\ pipe = <<>> /\ checks = <<>> /\ cos = <<>>

NextStream ==
    \/ HandleSubmit \/ EmbeddingFails \/ Retrieve
    \/ ChatFetch \/ ReaderRead \/ ReaderDone \/ ChatResolved

SpecStream == InitStream /\ [][NextStream]_vars

\* C12: for a streamed chat, the string OllamaClient.chat returns and the
\* final content of the in-progress assistant message are the fragments the
\* backend sent up to the done signal, concatenated in the order of arrival
C12_StreamAccumulated ==
    /\ ollama.pc \in {"returned", "resolved"} => ollama.result = ollama.sent
    /\ ollama.pc = "resolved" => TempMessage.content = ollama.sent

\* what the loop makes of the body of n fragments when one read brings all
\* of it
ReadAtOnce(n) ==
    ForLines(SplitLines(BodyFrom(1, n), <<>>), n,
             [fullResponse |-> <<>>, caller |-> chat, returned |-> FALSE,
              delivered |-> <<>>])

\* C28: however the body is split into reads, OllamaClient.chat gives to
\* onStream the fragments it gives when one read brings the whole body, and
\* returns the same text; no fragment sent is lost
C28_SegmentationIndependent ==
    ollama.pc \in {"returned", "resolved"} =>
        /\ ollama.delivered = ReadAtOnce(Len(ollama.sent)).delivered
        /\ ollama.result = ReadAtOnce(Len(ollama.sent)).fullResponse
        /\ \A k \in IndexesOf(ollama.sent) :
              \E j \in IndexesOf(ollama.delivered) : ollama.delivered[j] = ollama.sent[k]

\* read at once, the body gives every fragment
WholeBodyGivesAll ==
    ollama.pc \in {"reading", "returned", "resolved"} =>
        /\ ReadAtOnce(Len(ollama.sent)).delivered = ollama.sent
        /\ ReadAtOnce(Len(ollama.sent)).fullResponse = ollama.sent

----------------------------------------------------------------------------
(* embeddingGenerator: the module variable embeddingPipeline and the calls  *)
(* of generateEmbedding made by the upload and the chat components            *)

MaxCallers == 2        \* callers of generateEmbedding at the same time
MaxCalls == 2          \* calls one caller makes

Callers == 1..MaxCallers

NoPipeline == 0        \* let embeddingPipeline: any = null

CallerIdle == [pc |-> "idle", made |-> 0, load |-> 0, pipeline |-> 0]

\* if (!embeddingPipeline)
PipelineMissing(embeddingPipeline) == embeddingPipeline = NoPipeline

PipeUnchanged ==
    UNCHANGED <<ck, chunks, localStorage, quota, given, search, chat, ing,
                handler, ollama, checks, cos>>

\* generateEmbedding calls initializeEmbeddingPipeline: without a pipeline the
\* model load is started and awaited, otherwise the pipeline is returned
CallInitialize(c) ==
    /\ pipe.calls[c].pc = "idle" /\ pipe.calls[c].made < MaxCalls
    /\ pipe' =
        IF PipelineMissing(pipe.embeddingPipeline)
        THEN [pipe EXCEPT !.started = pipe.started + 1,
                          !.calls[c].made = pipe.calls[c].made + 1,
                          !.calls[c].load = pipe.started + 1,
                          !.calls[c].pc = "loading"]
        ELSE [pipe EXCEPT !.calls[c].made = pipe.calls[c].made + 1,
                          !.calls[c].pipeline = pipe.embeddingPipeline,
                          !.calls[c].pc = "inference"]
    /\ PipeUnchanged

\* the awaited load resolves, embeddingPipeline is assigned and returned
LoadResolves(c) ==
    /\ pipe.calls[c].pc = "loading"
    /\ pipe' = [pipe EXCEPT !.embeddingPipeline = pipe.calls[c].load,
                            !.loaded = pipe.loaded + 1,
                            !.calls[c].pipeline = pipe.calls[c].load,
                            !.calls[c].pc = "inference"]
    /\ PipeUnchanged

\* the awaited load rejects: the error is logged and rethrown
LoadRejects(c) ==
    /\ pipe.calls[c].pc = "loading"
    /\ pipe' = [pipe EXCEPT !.calls[c].pc = "idle"]
    /\ PipeUnchanged

\* await pipeline(text, ...) settles and generateEmbedding returns or throws
InferenceSettles(c) ==
    /\ pipe.calls[c].pc = "inference"
    /\ pipe' = [pipe EXCEPT !.calls[c].pc = "idle"]
    /\ PipeUnchanged

InitPipeline ==
    /\ ck = ChunkerIdle
    /\ chunks = <<>> /\ localStorage = NoItem /\ quota = NoQuota
    /\ given = <<>> /\ search = <<>> /\ chat = <<>> /\ ing = <<>>
    /\ handler = <<>> /\ ollama = <<>> /\ checks = <<>> /\ cos = <<>>
    /\ pipe = [embeddingPipeline |-> NoPipeline, started |-> 0, loaded |-> 0,
               calls |-> [c \in Callers |-> CallerIdle]]

NextPipeline ==
    \E c \in Callers :
        CallInitialize(c) \/ LoadResolves(c) \/ LoadRejects(c) \/ InferenceSettles(c)

SpecPipeline == InitPipeline /\ [][NextPipeline]_vars

Loading == {c \in Callers : pipe.calls[c].pc = "loading"}

\* C13: calls made before the first model load has completed wait on that
\* load: no two loads are in progress together, and the model is loaded at
\* most once, in every interleaving of the callers
C13_InitializeOnce ==
    /\ Cardinality(Loading) <= 1
    /\ pipe.loaded <= 1

----------------------------------------------------------------------------
(* BrowserVectorStore across restarts: the snapshot under the storage key *)

MaxQuota == 2          \* most chunk records the browser lets the snapshot hold

\* loadFromStorage, called by the constructor on  chunks = []
LoadFromStorage(item) == IF item.present THEN Parse(item) ELSE <<>>

\* the page is loaded again: a new BrowserVectorStore is constructed
Restart ==
    /\ chunks' = LoadFromStorage(localStorage)
    /\ given' = [d \in DocIds |-> NoneGiven]
    /\ UNCHANGED <<ck, localStorage, quota, search, chat, ing, rest>>

InitDurable ==
    /\ ck = ChunkerIdle
    /\ InitStoreVars
    /\ quota \in 0..MaxQuota
    /\ search = <<>>
    /\ chat = <<>> /\ ing = <<>> /\ RestIdle

NextDurable == AddCall \/ RemoveCall \/ ClearCall \/ Restart

SpecDurable == InitDurable /\ [][NextDurable]_vars

\* C14: after every mutating operation that returned, the snapshot under the
\* storage key holds the chunks in memory, so a store constructed after a
\* restart holds the chunks the previous instance held, also when the
\* storage write failed
C14_DurableFlush == LoadFromStorage(localStorage) = chunks

----------------------------------------------------------------------------
(* Ingestion: document status and index correspondence *)

\* the store holds, for the document id, the chunk of the given index with
\* its text and the embedding made for that text
HoldsChunk(documentId, index, text) ==
    IF ServerPath
    THEN \E k \in IndexesOf(ing.document_chunks) :
            /\ ing.document_chunks[k].document_id = documentId
            /\ ing.document_chunks[k].chunk_index = index
            /\ ing.document_chunks[k].content = text
            /\ ing.document_chunks[k].embedding = EmbeddingFor(text)
    ELSE \E k \in IndexesOf(chunks) :
            /\ chunks[k].documentId = documentId
            /\ chunks[k].metadata.chunkIndex = index
            /\ chunks[k].content = text
            /\ chunks[k].embedding = EmbeddingFor(text)

\* every chunk of the batch of an upload is in the store
BatchStored(documentId, upload) ==
    \A i \in IndexesOf(ing.batches[upload]) :
        HoldsChunk(documentId, i - 1, ing.batches[upload][i])

\* C15: a document is indexed (server) or its tracker completed (local) only
\* when every chunk of the batch of the upload that got it there is embedded
\* and stored; in no reachable state is a document indexed while a chunk of
\* that batch is missing from the vector store
C15_IndexedMeansStored ==
    /\ ServerPath =>
        \A d \in DocIds :
            (\E k \in IndexesOf(ing.documents) :
                ing.documents[k].id = d /\ ing.documents[k].status = "indexed")
            => \E k \in IndexesOf(ing.documents) :
                /\ ing.documents[k].id = d /\ ing.documents[k].status = "indexed"
                /\ BatchStored(d, ing.documents[k].upload)
    /\ ~ServerPath =>
        \A k \in IndexesOf(ing.processingFiles) :
            ing.processingFiles[k].status = "completed"
            => BatchStored(ing.processingFiles[k].id, ing.processingFiles[k].upload)

\* a document of three chunks is indexed by the process-document function and
\* its three chunks are stored
C15_Witness ==
    /\ ing.path = "server" /\ ing.pc = "idle" /\ ing.response = "ok"
    /\ Len(ing.batches[ing.calls]) = 3
    /\ Len(StoredFor(ing.req.documentId)) = 3
    /\ \E k \in InsertedRows : ing.documents[k].status = "indexed"

\* the chunk indexes the store holds for a document id, in stored order
StoredIndexes(documentId) ==
    LET held == StoredFor(documentId)
    IN [k \in IndexesOf(held) |->
            IF ServerPath THEN held[k].chunk_index ELSE held[k].metadata.chunkIndex]

\* C18: for a successfully ingested document whose chunker returned n chunks
\* the store holds exactly n records, of chunk index 0..n-1, and the record
\* of index i holds the i-th chunk text with the embedding made for that text
C18_IndexCorrespondence ==
    (ing.pc = "idle" /\ ing.response = "ok") =>
        LET d == ing.req.documentId
            n == Len(ing.batches[ing.calls])
        IN /\ Len(StoredFor(d)) = n
           /\ StoredIndexes(d) = [k \in 1..n |-> k - 1]
           /\ BatchStored(d, ing.calls)

\* the same for a document id ingested for the first time
FirstIngestionCorresponds ==
    (ing.pc = "idle" /\ ing.response = "ok" /\ ing.before = <<>>) =>
        LET d == ing.req.documentId
            n == Len(ing.batches[ing.calls])
        IN /\ Len(StoredFor(d)) = n
           /\ StoredIndexes(d) = [k \in 1..n |-> k - 1]
           /\ BatchStored(d, ing.calls)

----------------------------------------------------------------------------
(* HybridChatInterface: the conversation, with checkOllamaConnection run by *)
(* the effect on ollamaUrl                                                   *)

MaxChecks == 2         \* runs of the effect on ollamaUrl, the mount included

\* useState initial values
ChatMounted ==
    [ChatReady EXCEPT !.messages = <<>>, !.isOllamaAvailable = FALSE,
                      !.selectedModel = ""]

\* checkOllamaConnection as the effect calls it: the function of the render
\* in which the effect ran, with that render's messages and selectedModel
CheckStarted(c) ==
    [pc |-> "isAvailable", noMessages |-> c.messages = <<>>,
     selectedModel |-> c.selectedModel]

ConversationUnchanged ==
    UNCHANGED <<ck, chunks, localStorage, quota, given, search, ing,
                handler, ollama, pipe, cos>>

\* the Ollama URL field is edited: the effect runs checkOllamaConnection
UrlChanged ==
    /\ Len(checks) < MaxChecks
    /\ checks' = Append(checks, CheckStarted(chat))
    /\ UNCHANGED chat
    /\ ConversationUnchanged

\* await ollamaClient.isAvailable() settles; setIsOllamaAvailable(available)
IsAvailableSettles ==
    /\ \E k \in IndexesOf(checks), available \in BOOLEAN :
        /\ checks[k].pc = "isAvailable"
        /\ chat' = [chat EXCEPT !.isOllamaAvailable = available]
        /\ checks' = [checks EXCEPT ![k].pc = IF available THEN "getModels" ELSE "done"]
    /\ ConversationUnchanged

\* await ollamaClient.getModels() settles: a model is selected if the render
\* had none, and the greeting is set if the render had no messages
GetModelsSettles ==
    /\ \E k \in IndexesOf(checks), models \in {<<>>, <<"llama3">>} :
        /\ checks[k].pc = "getModels"
        /\ chat' = [chat EXCEPT
                      !.selectedModel =
                          IF Len(models) > 0 /\ checks[k].selectedModel = ""
                          THEN models[1] ELSE chat.selectedModel,
                      !.messages =
                          IF checks[k].noMessages THEN <<Greeting>> ELSE chat.messages]
        /\ checks' = [checks EXCEPT ![k].pc = "done"]
    /\ ConversationUnchanged

InitConversation ==
    /\ ck = ChunkerIdle
    /\ chunks \in ChatStores /\ Len(chunks) <= 1
    /\ localStorage = Stringify(chunks)
    /\ quota = NoQuota
    /\ given = <<>> /\ search = <<>> /\ ing = <<>>
    /\ handler = <<>> /\ ollama = <<>> /\ pipe = <<>> /\ cos = <<>>
    /\ chat = ChatMounted
    /\ checks = <<CheckStarted(ChatMounted)>>

NextConversation ==
    \/ UrlChanged \/ IsAvailableSettles \/ GetModelsSettles
    \/ NextChat

SpecConversation == InitConversation /\ [][NextConversation]_vars

----------------------------------------------------------------------------
(* cosineSimilarity as a function of two vectors *)

MaxDim == 2            \* longest vector given to cosineSimilarity
MaxComponent == 2      \* largest absolute value of a component

CosVectors ==
    UNION {[1..n -> (0 - MaxComponent)..MaxComponent] : n \in 1..MaxDim}

NonZero(a) == \E i \in 1..Len(a) : a[i] # 0

\* The sums of cosineSimilarity are exact on small integers; the double it
\* returns for (a, a), n / (Math.sqrt(n) * Math.sqrt(n)) with n the sum of the
\* squares, is 1 or a neighbour of 1.  The n up to 100 for which IEEE-754
\* binary64 arithmetic gives 1 - 2^-52:
QuotientTwoBelow == {2, 5, 8, 10, 19, 20, 32, 40, 66, 75, 76, 77, 78, 80, 82}
\* ... 1 - 2^-53:
QuotientOneBelow == {7, 15, 28, 45, 50, 51, 58, 60, 63, 87, 94}
\* ... 1 + 2^-52:
QuotientAbove ==
    {3, 6, 12, 13, 18, 23, 24, 26, 29, 31, 37, 38, 43, 48, 52, 59, 61, 65,
     72, 73, 89, 92, 95, 96, 97}

\* n / (Math.sqrt(n) * Math.sqrt(n)) - 1 in units of 2^-53, for 1 <= n <= 100
SelfQuotientError(n) ==
    IF n \in QuotientTwoBelow THEN 0 - 2
    ELSE IF n \in QuotientOneBelow THEN 0 - 1
    ELSE IF n \in QuotientAbove THEN 2
    ELSE 0

\* the double returned for (a, a) is 1
SelfQuotientIsOne(x) ==
    /\ x.normA > 0
    /\ x.dotProduct = x.normA /\ x.normA = x.normB
    /\ SelfQuotientError(x.normA) = 0

\* x and y are the same double: the same dividend over the product of the same
\* two roots, in either order (the product of two doubles does not depend on
\* their order), and not NaN
SameDouble(x, y) ==
    /\ ~IsNaN(x) /\ ~IsNaN(y)
    /\ x.dotProduct = y.dotProduct
    /\ \/ x.normA = y.normA /\ x.normB = y.normB
       \/ x.normA = y.normB /\ x.normB = y.normA

NoNumber == [dotProduct |-> 0, normA |-> 0, normB |-> 0]

\* one call: it throws on vectors of different lengths
CosineCall(a, b) ==
    IF LengthsDiffer(a, b)
    THEN [threw |-> TRUE, value |-> NoNumber]
    ELSE [threw |-> FALSE, value |-> cosineSimilarity(a, b)]

CosineUnchanged ==
    UNCHANGED <<ck, chunks, localStorage, quota, given, search, chat, ing,
                handler, ollama, pipe, checks>>

InitCosine ==
    /\ ck = ChunkerIdle
    /\ chunks = <<>> /\ localStorage = NoItem /\ quota = 0
    /\ given = <<>> /\ search = <<>> /\ chat = <<>> /\ ing = <<>>
    /\ handler = <<>> /\ ollama = <<>> /\ pipe = <<>> /\ checks = <<>>
    /\ \E a \in CosVectors, b \in CosVectors :
        cos = [a |-> a, b |-> b, pc |-> "ab",
               ab |-> CosineCall(<<>>, <<>>), ba |-> CosineCall(<<>>, <<>>),
               aa |-> CosineCall(<<>>, <<>>)]

\* cosineSimilarity(a, b)
CosineOfPair ==
    /\ cos.pc = "ab"
    /\ cos' = [cos EXCEPT !.ab = CosineCall(cos.a, cos.b), !.pc = "ba"]
    /\ CosineUnchanged

\* cosineSimilarity(b, a)
CosineOfSwapped ==
    /\ cos.pc = "ba"
    /\ cos' = [cos EXCEPT !.ba = CosineCall(cos.b, cos.a), !.pc = "aa"]
    /\ CosineUnchanged

\* cosineSimilarity(a, a)
CosineOfSelf ==
    /\ cos.pc = "aa"
    /\ cos' = [cos EXCEPT !.aa = CosineCall(cos.a, cos.a), !.pc = "done"]
    /\ CosineUnchanged

NextCosine == CosineOfPair \/ CosineOfSwapped \/ CosineOfSelf

SpecCosine == InitCosine /\ [][NextCosine]_vars

\* the three calls were made on non-zero vectors of one length
CosineLawsApply ==
    /\ cos.pc = "done"
    /\ Len(cos.a) = Len(cos.b)
    /\ NonZero(cos.a) /\ NonZero(cos.b)

IsSquare(n) == \E r \in 0..n : r * r = n

\* C17 (as claimed): on non-zero vectors of equal length cosine(a, a) equals 1
\* and cosine(a, b) equals cosine(b, a)
C17_CosineLaws ==
    CosineLawsApply =>
        /\ ~cos.aa.threw /\ SelfQuotientIsOne(cos.aa.value)
        /\ ~cos.ab.threw /\ ~cos.ba.threw
        /\ SameDouble(cos.ab.value, cos.ba.value)

\* C17 (amended): on non-zero vectors of equal length cosine(a, a) is within
\* 2^-52 of 1, and is 1 when the sum of the squares of a is a perfect square;
\* cosine(a, b) equals cosine(b, a)
C17_CosineLawsWithinTolerance ==
    CosineLawsApply =>
        /\ ~cos.aa.threw
        /\ cos.aa.value.dotProduct = cos.aa.value.normA
        /\ cos.aa.value.normA = cos.aa.value.normB
        /\ cos.aa.value.normA > 0
        /\ SelfQuotientError(cos.aa.value.normA) \in (0 - 2)..2
        /\ IsSquare(cos.aa.value.normA) => SelfQuotientIsOne(cos.aa.value)
        /\ ~cos.ab.threw /\ ~cos.ba.threw
        /\ SameDouble(cos.ab.value, cos.ba.value)

C17_Witness ==
    /\ CosineLawsApply
    /\ cos.a # cos.b
    /\ ~SelfQuotientIsOne(cos.aa.value)
    /\ cos.ab.value.normA # cos.ab.value.normB
    /\ cos.ab.value.dotProduct # 0

----------------------------------------------------------------------------
(* Ingestion: the embedding requests of one document *)

\* C21: the embedding requests of one ingestion are issued in chunk-index
\* order, each chunk's at most once and at most one in flight at any time
\* (every request before the last has ended, and ended well), and none is
\* issued after a request that failed
C21_SequentialNoRetry ==
    /\ Len(ing.requests) <= Len(ing.chunks)
    /\ \A k \in IndexesOf(ing.requests) :
          /\ ing.requests[k].index = k - 1
          /\ k < Len(ing.requests) => ing.requests[k].outcome = "ok"
    /\ (ing.requests # <<>> /\ ing.requests[Len(ing.requests)].outcome = "pending")
          => ing.pc = "embedding"

\* the request of the second of three chunks failed and the ingestion ended
C21_Witness ==
    /\ ing.pc = "idle" /\ ing.response = "error"
    /\ Len(ing.chunks) = 3
    /\ Len(ing.requests) = 2
    /\ ing.requests[1].outcome = "ok" /\ ing.requests[2].outcome = "failed"

----------------------------------------------------------------------------
(* The edge functions: failures of the embeddings call *)

\* C22: when the embeddings call of a chat request was answered with a status
\* that is not 2xx, the handler answers with an error whose detail carries
\* that status
C22_EmbeddingFailureSurfaced ==
    (ServerChat /\ handler.pc = "idle" /\ handler.embeddingAnswer.kind = "status") =>
        /\ handler.response = "error"
        /\ handler.detail.kind = "service"
        /\ handler.detail.status = handler.embeddingAnswer.status

\* the same of the process-document function in its current source, which
\* adds the body
CurrentIngestionSurfacesStatus ==
    (ing.path = "server" /\ ing.pc = "idle" /\ ing.embeddingAnswer.kind = "status") =>
        /\ ing.response = "error"
        /\ ing.detail = ServiceError(ing.embeddingAnswer.status, TRUE)

\* the same of chat-with-docs in the source that checks response.ok, which
\* leaves out the body
CheckedChatSurfacesStatus ==
    (handler.path = "part_000" /\ handler.pc = "idle"
     /\ handler.embeddingAnswer.kind = "status") =>
        /\ handler.response = "error"
        /\ handler.detail = ServiceError(handler.embeddingAnswer.status, FALSE)

----------------------------------------------------------------------------
(* DocumentUpload (DocumentLibrary.tsx): processFiles and uploadToSupabase,  *)
(* one dropped batch at a time; every await is a step of its own            *)

MaxBatch == 2          \* most files of one dropped batch
MaxDrops == 2          \* most batches dropped

FileNames == {"a.txt", "b.txt"}

AcceptedFiles == UNION {[1..n -> FileNames] : n \in 1..MaxBatch}

UploadIdle ==
    [path |-> "supabase", uploadedFiles |-> <<>>, acceptedFiles |-> <<>>,
     newFiles |-> <<>>, k |-> 0, fileId |-> 0, pc |-> "idle", calls |-> 0,
     \* history: the invocations of process-document (the file of the batch
     \* and the document id sent), how the upload of each file of the batch
     \* ended, and how many entries the tracker had before the batch
     invoked |-> <<>>, outcomes |-> <<>>, first |-> 0]

\* crypto.randomUUID() for the i-th file of the batch: an id no entry carries
FreshId(files, i) == Len(files) + i

\* newFiles.find(f => f.name === file.name)?.id : the id of the first new
\* entry of that name
FindByName(newFiles, acceptedFiles, k) ==
    newFiles[SetMin({i \in IndexesOf(newFiles) : newFiles[i].name = acceptedFiles[k]})].id

\* setUploadedFiles(prev => prev.map(f => f.id === fileId ? {...f, status, progress} : f))
SetUploaded(files, fileId, status, progress) ==
    [i \in IndexesOf(files) |->
        IF files[i].id = fileId
        THEN [files[i] EXCEPT !.status = status, !.progress = progress]
        ELSE files[i]]

\* setUploadedFiles(prev => prev.map(f => f.id === fileId ? {...f, status: 'error', error} : f))
SetUploadError(files, fileId) ==
    [i \in IndexesOf(files) |->
        IF files[i].id = fileId THEN [files[i] EXCEPT !.status = "error"] ELSE files[i]]

\* uploadToSupabase threw: the catch of processFiles, then the next file
UploadFailed(c) ==
    [c EXCEPT !.uploadedFiles = SetUploadError(c.uploadedFiles, c.fileId),
              !.outcomes = Append(c.outcomes, "error"),
              !.k = c.k + 1, !.pc = "loop"]

UploadUnchanged ==
    UNCHANGED <<ck, chunks, localStorage, quota, given, search, chat, rest>>

InitUpload ==
    /\ RestIdle
    /\ ck = ChunkerIdle
    /\ chunks = <<>> /\ localStorage = NoItem /\ quota = 0
    /\ given = <<>> /\ search = <<>> /\ chat = <<>>
    /\ ing = UploadIdle

\* processFiles(acceptedFiles) up to the loop: without a session only a toast
ProcessFiles ==
    /\ ing.pc = "idle" /\ ing.calls < MaxDrops
    /\ \E signedIn \in BOOLEAN, acceptedFiles \in AcceptedFiles :
        ing' =
            IF ~signedIn THEN [ing EXCEPT !.calls = ing.calls + 1]
            ELSE LET newFiles ==
                        [i \in IndexesOf(acceptedFiles) |->
                            [id |-> FreshId(ing.uploadedFiles, i),
                             name |-> acceptedFiles[i],
                             status |-> "uploading", progress |-> 0]]
                 IN [ing EXCEPT !.calls = ing.calls + 1,
                                !.acceptedFiles = acceptedFiles,
                                !.newFiles = newFiles,
                                !.first = Len(ing.uploadedFiles),
                                !.uploadedFiles = ing.uploadedFiles \o newFiles,
                                !.outcomes = <<>>,
                                !.k = 1, !.pc = "loop"]
    /\ UploadUnchanged

\* the head of the loop: the id is looked up and uploadToSupabase runs up to
\* its first await (the token, size and type checks throw; the entry shows
\* uploading, 25)
UploadNext ==
    /\ ing.pc = "loop"
    /\ IF ing.k > Len(ing.acceptedFiles)
       THEN ing' = [ing EXCEPT !.pc = "idle"]
       ELSE \E valid \in BOOLEAN :
              LET c == [ing EXCEPT !.fileId = FindByName(ing.newFiles, ing.acceptedFiles, ing.k)]
              IN ing' =
                   IF ~valid THEN UploadFailed(c)
                   ELSE [c EXCEPT !.uploadedFiles =
                                      SetUploaded(c.uploadedFiles, c.fileId, "uploading", 25),
                                  !.pc = "reading"]
    /\ UploadUnchanged

\* await fileToBase64 / readFileAsText; the entry shows 50, then processing,
\* 75, and process-document is invoked
ReadSettles ==
    /\ ing.pc = "reading"
    /\ \E read \in BOOLEAN :
        ing' =
            IF ~read THEN UploadFailed(ing)
            ELSE [ing EXCEPT !.uploadedFiles =
                                 SetUploaded(SetUploaded(ing.uploadedFiles, ing.fileId,
                                                         "uploading", 50),
                                             ing.fileId, "processing", 75),
                             !.invoked = Append(ing.invoked,
                                                [file |-> ing.first + ing.k,
                                                 documentId |-> ing.fileId]),
                             !.pc = "invoking"]
    /\ UploadUnchanged

\* await supabase.functions.invoke('process-document', ...)
InvokeSettles ==
    /\ ing.pc = "invoking"
    /\ \E error \in BOOLEAN :
        ing' =
            IF error THEN UploadFailed(ing)
            ELSE [ing EXCEPT !.uploadedFiles =
                                 SetUploaded(ing.uploadedFiles, ing.fileId, "completed", 100),
                             !.outcomes = Append(ing.outcomes, "completed"),
                             !.k = ing.k + 1, !.pc = "loop"]
    /\ UploadUnchanged

NextUpload == ProcessFiles \/ UploadNext \/ ReadSettles \/ InvokeSettles

SpecUpload == InitUpload /\ [][NextUpload]_vars

\* C27: any two files are uploaded with distinct document ids, and when a
\* batch has been processed the tracker entry of each of its files shows how
\* the upload of that file ended
C27_OneIdPerFile ==
    /\ \A i, j \in IndexesOf(ing.invoked) :
          i # j => ing.invoked[i].documentId # ing.invoked[j].documentId
    /\ (ing.pc = "idle" /\ Len(ing.outcomes) = Len(ing.acceptedFiles)) =>
          \A k \in IndexesOf(ing.outcomes) :
              ing.uploadedFiles[ing.first + k].status = ing.outcomes[k]

TerminalStatus == {"completed", "indexed", "error"}

\* C23: once the status of a tracker entry is completed or error, no step
\* changes the status or the progress of the entry
C23_TerminalStatus ==
    [][\A i \in IndexesOf(ing.uploadedFiles) :
          ing.uploadedFiles[i].status \in TerminalStatus =>
              /\ ing'.uploadedFiles[i].status = ing.uploadedFiles[i].status
              /\ ing'.uploadedFiles[i].progress = ing.uploadedFiles[i].progress]_vars

----------------------------------------------------------------------------
(* The chat-with-docs function: the similarity procedure and what is built  *)
(* from its rows                                                             *)

\* C24: a request of the chat-with-docs function calls search_documents at
\* most once, with the embedding of the message, threshold 0.3, count 5 and
\* the id of the authenticated user; the context of the prompt and the
\* sources of the response are built from the rows received, one entry per
\* row in the order received
C24_DelegatedRanking ==
    ServerChat =>
        /\ Len(handler.rpc) <= 1
        /\ \A k \in IndexesOf(handler.rpc) :
              /\ handler.rpc[k].query_embedding = EmbeddingFor("message")
              /\ handler.rpc[k].match_threshold = <<3, 10>>
              /\ handler.rpc[k].match_count = 5
              /\ handler.auth = "user" /\ handler.user \in Users
              /\ handler.rpc[k].filter_user_id = handler.user
        /\ handler.prompted =>
              /\ Len(handler.rpc) = 1
              /\ Len(handler.context.entries) = Len(handler.searchResults)
              /\ \A k \in IndexesOf(handler.searchResults) :
                    handler.context.entries[k] =
                        <<handler.searchResults[k].document_name,
                          handler.searchResults[k].content>>
        /\ (handler.pc = "idle" /\ handler.response = "ok") =>
              /\ handler.prompted
              /\ Len(handler.sources) = Len(handler.searchResults)
              /\ \A k \in IndexesOf(handler.searchResults) :
                    /\ handler.sources[k].documentName =
                           handler.searchResults[k].document_name
                    /\ handler.sources[k].similarity =
                           handler.searchResults[k].similarity
                    /\ handler.sources[k].content[1] = handler.searchResults[k].content

C24_Witness ==
    /\ ServerChat /\ handler.pc = "idle" /\ handler.response = "ok"
    /\ Len(handler.searchResults) = 2
    /\ handler.searchResults[1] # handler.searchResults[2]
    /\ Len(handler.rpc) = 1 /\ handler.user = "u2"

----------------------------------------------------------------------------
(* The edge functions, each serving its requests: process-document in both  *)
(* sources or chat-with-docs in both sources                                 *)

InitEdge ==
    /\ ck = ChunkerIdle
    /\ InitStoreVars
    /\ quota = NoQuota
    /\ search = <<>> /\ chat = <<>>
    /\ ollama = <<>> /\ pipe = <<>> /\ checks = <<>> /\ cos = <<>>
    /\ \/ /\ \E path \in {"server", "older"}, unique \in DocumentsIdUnique,
                hasKey \in BOOLEAN :
                ing = IngestIdle(path, unique, hasKey)
          /\ handler = HandlerIdle("off")
       \/ /\ ing = IngestIdle("off", FALSE, TRUE)
          /\ handler \in {HandlerIdle("index"), HandlerIdle("part_000")}

NextEdge ==
    \/ Invoke \/ Authenticate \/ InsertDocument \/ FetchEmbedding \/ EmbedChunk
    \/ InsertChunks \/ MarkIndexed \/ CatchBlock
    \/ ChatRequest \/ GetUser \/ SaveUserMessage \/ EmbedQuestion
    \/ SearchDocuments \/ Complete \/ SaveAssistantMessage

SpecEdge == InitEdge /\ [][NextEdge]_vars

\* the Authorization header of the request is missing or its token does not
\* resolve to a user
Unauthenticated(c) == c.auth \in {"missing", "unresolved"}

UnauthenticatedChatAnswered ==
    /\ handler.path = "index" /\ handler.auth = "missing"
    /\ handler.pc = "idle" /\ handler.response = "error"

----------------------------------------------------------------------------
(* HybridChatInterface: the messages of a submission *)

\* the messages of a role, the greeting left out
MessagesOf(role) ==
    {i \in IndexesOf(chat.messages) :
        chat.messages[i].role = role /\ chat.messages[i] # Greeting}

\* C29: every accepted submission appends one user message; while it is in
\* progress isLoading is set, so no other is accepted; when the interface is
\* idle again isLoading is false and every submission was followed by exactly
\* one assistant message, the answer or an error notice, also when the
\* stream failed
C29_OneReplyPerQuestion ==
    /\ Cardinality(MessagesOf("user")) = chat.asked
    /\ chat.pc # "idle" => chat.isLoading
    /\ chat.pc = "idle" =>
          /\ ~chat.isLoading
          /\ Cardinality(MessagesOf("assistant")) = chat.asked

----------------------------------------------------------------------------
(* BrowserVectorStore: documents added, removed and searched *)

MaxIsolated == 1       \* most chunks given to one addDocumentChunks call here

InitIsolation == InitStore

\* the step is a call of addDocumentChunks(d, ...)
AddStep(d) ==
    \E n \in 0..MaxIsolated :
        \E pairs \in [1..n -> GivenPairs] :
            addDocumentChunks(d, DocName(d), [i \in 1..n |-> pairs[i][1]],
                              [i \in 1..n |-> pairs[i][2]])

AddIsolated == \E d \in DocIds : AddStep(d) /\ UNCHANGED ing

\* the caller has taken the results of searchSimilar
SearchTaken ==
    /\ search # <<>>
    /\ search' = <<>>
    /\ UNCHANGED <<ck, chunks, localStorage, quota, given, chat, ing, rest>>

\* the store is called when no call of it is under way
NextIsolation ==
    \/ search = <<>> /\ AddIsolated
    \/ search = <<>> /\ RemoveCall
    \/ search = <<>> /\ SearchCall
    \/ SearchTaken

SpecIsolation == InitIsolation /\ [][NextIsolation]_vars

====
